---- MODULE Spec2Model ----
(***************************************************************************)
(* Pattern detection and scoring engine of the candlestick screener.       *)
(*                                                                         *)
(* A frame (pandas DataFrame) is a record                                  *)
(*   [bars : Seq(Bar), columns : set of column names, dtype : dtype of the *)
(*    price columns]                                                       *)
(* and a Bar is [Open, High, Low, Close, Volume] over the integers (prices *)
(* in ticks).  The code computes in IEEE doubles; the model computes the   *)
(* same expressions in exact rational arithmetic, every comparison being   *)
(* cross-multiplied to integers.  The two agree except where a double      *)
(* rounding would move a value across a threshold it exactly meets.        *)
(* NaN inputs are not modelled; NaN results of the indicators (warm-up)    *)
(* are the value NaN below.                                                *)
(***************************************************************************)
EXTENDS Integers, Sequences, FiniteSets, TLC

VARIABLES
    df,              \* the frame handed to the engine
    pattern_result,  \* signal passed to calculate_pattern_strength
    pattern_name,    \* detector identity passed with it
    strength,        \* value returned by calculate_pattern_strength / score classified
    quality,         \* label returned by get_signal_quality
    exc_line,        \* source line of the statement that raised inside the scorer (0: none)
    exc_score,       \* value of the local `score` when the scorer left the heuristic
    call,            \* entry point of the engine that ran last ("load": none yet)
    lookback,        \* lookback argument of the volume and breakout detectors
    max_days_ago,    \* max_days_ago argument of detect_supertrend_bullish
    signals,         \* detector name -> value it returned, for the detectors run
    df_st,           \* rows of calculate_supertrend(df) in the last trend detector
    program,         \* batch scan that is running ("none": no batch)
    symbol_idx,      \* position of the batch in its symbols (enumerate from 1)
    scanner_idx,     \* position in the scanners for the symbol (0: symbol not loaded)
    results,         \* results list of the batch
    log,             \* error lines the batch has printed
    loaded,          \* symbols whose frame reached the scanner loop
    evaluated,       \* <<symbol, scanner>> pairs whose detector has been called
    faults,          \* unexpected exceptions raised so far
    scanner_results, \* rows of the table scanner_data.scanner_results
    now              \* the clock when the batch started, in runs

scorer_vars == <<pattern_result, pattern_name, strength, quality, exc_line, exc_score>>
detector_vars == <<lookback, max_days_ago, signals, df_st>>
store_vars == <<scanner_results, now>>
batch_vars == <<program, symbol_idx, scanner_idx, results, log, loaded, evaluated, faults,
                store_vars>>
vars == <<df, scorer_vars, detector_vars, call, batch_vars>>

-----------------------------------------------------------------------------
(* Python values *)

None == "None"
\* a float that may be nan: the fraction num/den otherwise
NaN == [nan |-> TRUE, num |-> 0, den |-> 1]
Float(num, den) == [nan |-> FALSE, num |-> num, den |-> den]
isnan(x) == x.nan
bullish == "bullish"
bearish == "bearish"

AllColumns == {"Open", "High", "Low", "Close", "Volume"}

-----------------------------------------------------------------------------
(* numpy / pandas helpers *)

Max(a, b) == IF a >= b THEN a ELSE b
Min(a, b) == IF a <= b THEN a ELSE b
Abs(a) == IF a >= 0 THEN a ELSE 0 - a

RECURSIVE Gcd(_, _)
Gcd(a, b) == IF b = 0 THEN a ELSE Gcd(b, a % b)

\* df.tail(n) / s[-n:]
tail(s, n) == IF Len(s) <= n THEN s ELSE SubSeq(s, Len(s) - n + 1, Len(s))

\* s[:-1]
ButLast(s) == IF Len(s) = 0 THEN s ELSE SubSeq(s, 1, Len(s) - 1)

RECURSIVE SumTo(_, _)
SumTo(s, n) == IF n = 0 THEN 0 ELSE s[n] + SumTo(s, n - 1)
\* np.sum
Sum(s) == SumTo(s, Len(s))

\* np.max of a non-empty array
np_max(s) == CHOOSE m \in {s[i] : i \in 1..Len(s)} : \A i \in 1..Len(s) : s[i] <= m

\* np.min of a non-empty array
np_min(s) == CHOOSE m \in {s[i] : i \in 1..Len(s)} : \A i \in 1..Len(s) : s[i] >= m

\* df[col].values
Column(bars, col) == [i \in 1..Len(bars) |-> bars[i][col]]

-----------------------------------------------------------------------------
(* TA-Lib indicators used by the scorer (default compatibility, no         *)
(* unstable period).  A Wilder average is kept as the fraction num/den;    *)
(* RSI needs only the pair of averages over their common denominator.      *)

RsiPeriod == 14
AtrPeriod == 14

\* True range of bar i >= 2 (TA_TRANGE)
TrueRange(bars, i) ==
    Max(bars[i].High - bars[i].Low,
        Max(Abs(bars[i].High - bars[i - 1].Close),
            Abs(bars[i].Low - bars[i - 1].Close)))

Gain(close, i) == IF close[i] - close[i - 1] > 0 THEN close[i] - close[i - 1] ELSE 0
Loss(close, i) == IF close[i] - close[i - 1] < 0 THEN close[i - 1] - close[i] ELSE 0

\* <<g, l, d>> divided by k, their common divisor (the fractions keep their value)
Div3(g, l, d, k) == IF k = 0 THEN <<g, l, d>> ELSE <<g \div k, l \div k, d \div k>>
Reduce3(g, l, d) == Div3(g, l, d, Gcd(Gcd(g, l), d))

\* prevGain, prevLoss after the first 14 changes, over the denominator 14
RsiSeed(close) ==
    Reduce3(SumTo([j \in 1..RsiPeriod |-> Gain(close, j + 1)], RsiPeriod),
            SumTo([j \in 1..RsiPeriod |-> Loss(close, j + 1)], RsiPeriod),
            RsiPeriod)

\* prev = (prev * 13 + today) / 14, for the gain and for the loss
RsiStep(p, gain, loss) ==
    Reduce3((RsiPeriod - 1) * p[1] + p[3] * gain,
            (RsiPeriod - 1) * p[2] + p[3] * loss,
            RsiPeriod * p[3])

\* Wilder averages of gains and losses after bar i: <<numGain, numLoss, den>>
RECURSIVE RsiState(_, _)
RsiState(close, i) ==
    IF i = RsiPeriod + 1 THEN RsiSeed(close)
    ELSE RsiStep(RsiState(close, i - 1), Gain(close, i), Loss(close, i))

\* 100 * (prevGain / (prevGain + prevLoss)), 0 when there is no movement
RsiValue(p) == IF p[1] + p[2] = 0 THEN Float(0, 1) ELSE Float(p[1], p[1] + p[2])

\* talib.RSI(close, timeperiod=14)[-1] as the fraction num/den of 100, or NaN
\* while the series has no more than 14 values
talib_RSI_last(close) ==
    IF Len(close) <= RsiPeriod THEN NaN ELSE RsiValue(RsiState(close, Len(close)))

Div2(n, d, k) == <<n \div k, d \div k>>
Reduce2(n, d) == Div2(n, d, Gcd(n, d))

\* prevATR = (prevATR * 13 + TR) / 14
AtrStep(p, tr) == Reduce2((AtrPeriod - 1) * p[1] + p[2] * tr, AtrPeriod * p[2])

\* Wilder average of the true range after bar i: <<num, den>>
RECURSIVE AtrState(_, _)
AtrState(bars, i) ==
    IF i = AtrPeriod + 1
    THEN Reduce2(SumTo([j \in 1..AtrPeriod |-> TrueRange(bars, j + 1)], AtrPeriod),
                 AtrPeriod)
    ELSE AtrStep(AtrState(bars, i - 1), TrueRange(bars, i))

AtrValue(p) == Float(p[1], p[2])

\* talib.ATR(high, low, close, timeperiod=14)[-1] as num/den, or NaN
talib_ATR_last(bars) ==
    IF Len(bars) <= AtrPeriod THEN NaN ELSE AtrValue(AtrState(bars, Len(bars)))

-----------------------------------------------------------------------------
(* Exact comparison of two non-negative fractions, by their continued      *)
(* fractions (no product is formed, so no 32-bit overflow).                *)

\* -1, 0 or 1 as a/b is below, equal to or above c/d  (a, c >= 0; b, d > 0)
RECURSIVE CmpFrac(_, _, _, _)
CmpFrac(a, b, c, d) ==
    LET qa == a \div b
        qc == c \div d
        ra == a % b
        rc == c % d
    IN  IF qa < qc THEN 0 - 1
        ELSE IF qa > qc THEN 1
        ELSE IF ra = 0 /\ rc = 0 THEN 0
        ELSE IF ra = 0 THEN 0 - 1
        ELSE IF rc = 0 THEN 1
        ELSE CmpFrac(d, rc, b, ra)

FracLT(a, b, c, d) == CmpFrac(a, b, c, d) < 0
FracGT(a, b, c, d) == CmpFrac(a, b, c, d) > 0

-----------------------------------------------------------------------------
(* pattern_scoring.py *)

BaseScore == 50
NeutralScore == 50
MinStrength == 0
MaxStrength == 100
ScoreWindow == 20
ConsolidationWindow == 5

\* 1. Volume confirmation: latest volume against the mean of the bars before it
\* in the 20-bar window (np.mean of an empty slice is nan: no branch is taken)
VolumeAdjustment(recent) ==
    LET volume == Column(recent, "Volume")
        n == Len(volume) - 1
        total == Sum(ButLast(volume))
        recent_volume == volume[Len(volume)]
    IN  IF n = 0 THEN 0
        ELSE IF 2 * recent_volume * n > 3 * total THEN 20
        ELSE IF 5 * recent_volume * n > 6 * total THEN 10
        ELSE IF 2 * recent_volume * n < total THEN 0 - 20
        ELSE 0

TrendAdjustment_against(recent, result) ==
    LET close == Column(recent, "Close")
        m == Len(close)
        total == Sum(close)
        current_price == close[m]
        above == 50 * current_price * m > 51 * total
        below == 50 * current_price * m < 49 * total
    IN  IF result = bullish
        THEN IF above THEN 15 ELSE IF below THEN 0 - 5 ELSE 0
        ELSE IF result = bearish
        THEN IF below THEN 15 ELSE IF above THEN 0 - 5 ELSE 0
        ELSE 0

\* 2. Trend strength: latest close against the mean close of the window
TrendAdjustment(recent, result) ==
    LET close == Column(recent, "Close")
        m == Len(close)
        total == Sum(close)
        current_price == close[m]
        above == 50 * current_price * m > 51 * total
        below == 50 * current_price * m < 49 * total
    IN  IF result = bullish
        THEN IF above THEN 15 ELSE IF below THEN 5 ELSE 0
        ELSE IF result = bearish
        THEN IF below THEN 15 ELSE IF above THEN 5 ELSE 0
        ELSE 0

\* 3. RSI context, from the whole frame's close
RsiContext(rsi, result) ==
    IF isnan(rsi) THEN 0
    ELSE IF result = bullish
    THEN IF FracGT(rsi.num, rsi.den, 3, 10) /\ FracLT(rsi.num, rsi.den, 1, 2) THEN 10
         ELSE IF FracGT(rsi.num, rsi.den, 7, 10) THEN 0 - 10
         ELSE 0
    ELSE IF result = bearish
    THEN IF FracGT(rsi.num, rsi.den, 1, 2) /\ FracLT(rsi.num, rsi.den, 7, 10) THEN 10
         ELSE IF FracLT(rsi.num, rsi.den, 3, 10) THEN 0 - 10
         ELSE 0
    ELSE 0

RsiAdjustment(bars, result) == RsiContext(talib_RSI_last(Column(bars, "Close")), result)

\* 4. Volatility: ATR(14) of the window as a percentage of the latest close
VolatilityBand(atr, current_price) ==
    IF current_price > 0 /\ ~isnan(atr)
    THEN IF FracGT(atr.num, atr.den, current_price, 100)
            /\ FracLT(atr.num, atr.den, 3 * current_price, 100) THEN 5
         ELSE IF FracGT(atr.num, atr.den, 5 * current_price, 100) THEN 0 - 5
         ELSE 0
    ELSE 0

VolatilityAdjustment(recent) ==
    VolatilityBand(talib_ATR_last(recent), recent[Len(recent)].Close)

\* 5. Price consolidation: range of the last five closes over the latest close
ConsolidationAdjustment(recent) ==
    LET last5 == tail(Column(recent, "Close"), ConsolidationWindow)
        current_price == recent[Len(recent)].Close
        spread == np_max(last5) - np_min(last5)
    IN  IF current_price > 0
        THEN IF 100 * spread < 3 * current_price THEN 10
             ELSE IF 10 * spread > current_price THEN 0 - 5
             ELSE 0
        ELSE 0

\* The try block, statement by statement: [exc_line, score] is the line of the
\* statement that raised (0: none) and the local `score` at that point.
\*   28-31  KeyError on a missing column
\*   35     IndexError on volume[-1] of an empty frame
\*   59, 72 talib refuses an array that is not float64
ScoreSteps(frame, result, recent, s2) ==
    IF frame.dtype # "float64" /\ Len(frame.bars) >= RsiPeriod
    THEN [exc_line |-> 59, score |-> s2]
    ELSE IF frame.dtype # "float64" THEN [exc_line |-> 72, score |-> s2]
    ELSE [exc_line |-> 0,
          score |-> s2 + (IF Len(frame.bars) >= RsiPeriod
                          THEN RsiAdjustment(frame.bars, result) ELSE 0)
                       + VolatilityAdjustment(recent) + ConsolidationAdjustment(recent)]

ScoreWindowed(frame, result, recent) ==
    ScoreSteps(frame, result, recent,
               BaseScore + VolumeAdjustment(recent) + TrendAdjustment(recent, result))

ScoreHeuristic(frame, result) ==
    IF "Close" \notin frame.columns THEN [exc_line |-> 28, score |-> BaseScore]
    ELSE IF "Volume" \notin frame.columns THEN [exc_line |-> 29, score |-> BaseScore]
    ELSE IF "High" \notin frame.columns THEN [exc_line |-> 30, score |-> BaseScore]
    ELSE IF "Low" \notin frame.columns THEN [exc_line |-> 31, score |-> BaseScore]
    ELSE IF Len(frame.bars) = 0 THEN [exc_line |-> 35, score |-> BaseScore]
    ELSE ScoreWindowed(frame, result, tail(frame.bars, ScoreWindow))

\* (mutant) the final clamp left out
ClampScore_unclamped(score) == score

\* return max(0, min(100, score))
ClampScore(score) == Max(MinStrength, Min(MaxStrength, score))

\* (mutant) the handler returns the score reached so far
ExceptReturn_partial(score) == score

\* except Exception: return 50
ExceptReturn(score) == NeutralScore

\* the value returned after the heuristic h = [exc_line, score]
ScoreReturn(h) ==
    [exc_line |-> h.exc_line, score |-> h.score,
     ret |-> IF h.exc_line # 0 THEN ExceptReturn(h.score) ELSE ClampScore(h.score)]

\* (mutant) no early return: a None signal runs the heuristic
NoneReturn_heuristic(frame) == ScoreReturn(ScoreHeuristic(frame, None))

\* if pattern_result is None: return 0
NoneReturn(frame) == [exc_line |-> 0, score |-> 0, ret |-> 0]

\* calculate_pattern_strength: [ret, exc_line, score]
ScoreCall(frame, result, name) ==
    IF result = None THEN NoneReturn(frame)
    ELSE ScoreReturn(ScoreHeuristic(frame, result))

calculate_pattern_strength(frame, result, name) == ScoreCall(frame, result, name).ret

\* (mutant) the top boundary taken strictly
get_signal_quality_strict(score) ==
    IF score > 80 THEN "strong"
    ELSE IF score >= 60 THEN "good"
    ELSE IF score >= 40 THEN "moderate"
    ELSE IF score >= 20 THEN "weak"
    ELSE "very_weak"

get_signal_quality(score) ==
    IF score >= 80 THEN "strong"
    ELSE IF score >= 60 THEN "good"
    ELSE IF score >= 40 THEN "moderate"
    ELSE IF score >= 20 THEN "weak"
    ELSE "very_weak"

-----------------------------------------------------------------------------
(* Frames *)

Bar(o, h, l, c, v) == [Open |-> o, High |-> h, Low |-> l, Close |-> c, Volume |-> v]

Frame(bars, columns, dtype) == [bars |-> bars, columns |-> columns, dtype |-> dtype]

\* a well-formed frame: every column, float64 prices
OkFrame(bars) == Frame(bars, AllColumns, "float64")

\* the value None in the place of a frame
NoneFrame == Frame(<<>>, {}, "NoneType")

\* the ways a frame reaches the engine: as the database delivers it, with a
\* column missing, or with integer price columns (a CSV of whole prices)
FrameKinds ==
    { [columns |-> AllColumns, dtype |-> "float64"],
      [columns |-> AllColumns \ {"Volume"}, dtype |-> "float64"],
      [columns |-> AllColumns \ {"Low"}, dtype |-> "float64"],
      [columns |-> AllColumns, dtype |-> "int64"] }

-----------------------------------------------------------------------------
(* Inputs of the scorer: a quiet series at BasePrice, whose first bar is   *)
(* offset by d0, whose bar before the last is offset by dip, and whose     *)
(* last k bars sit at BasePrice + jump; every bar spans close -/+ w; the   *)
(* last bar trades volume v, the others BaseVolume.                        *)

BasePrice == 100
BaseVolume == 100
MaxHalfRange == 3

ScoreLens == {0, 1, 14, 15, 20, 21}
ScoreFirstOffsets == {0 - 40, 0, 5}
ScoreJumps == {0 - 3, 0, 3, 12}
ScoreJumpBars == {1, 5}
ScoreDips == {0 - 12, 0}
ScoreVolumes == {40, BaseVolume, BaseVolume + 25, 2 * BaseVolume}

ScoreClose(n, i, d0, jump, k, dip) ==
    IF i = n - 1 /\ dip # 0 THEN BasePrice + dip
    ELSE IF i > n - k THEN BasePrice + jump
    ELSE IF i = 1 THEN BasePrice + d0
    ELSE BasePrice

ScoreBars(n, d0, jump, k, dip, w, v) ==
    [i \in 1..n |->
        LET c == ScoreClose(n, i, d0, jump, k, dip)
        IN  Bar(c, c + w, c - w, c, IF i = n THEN v ELSE BaseVolume)]

Signals == {bullish, bearish, None}
PatternNames == {"CUP_AND_HANDLE", "SUPERTREND_FRESH"}

-----------------------------------------------------------------------------
(* Defaults of the arguments, and the engine before any call *)

DefaultLookback == 20
DefaultMaxDaysAgo == 3
NoSignals == <<>>

ScorerIdle ==
    /\ pattern_result = None
    /\ pattern_name = "CUP_AND_HANDLE"
    /\ strength = 0
    /\ quality = "very_weak"
    /\ exc_line = 0
    /\ exc_score = 0

BatchIdle ==
    /\ program = "none"
    /\ symbol_idx = 0
    /\ scanner_idx = 0
    /\ results = <<>>
    /\ log = <<>>
    /\ loaded = {}
    /\ evaluated = {}
    /\ faults = 0
    /\ scanner_results = {}
    /\ now = 0

DetectorsIdle ==
    /\ lookback = DefaultLookback
    /\ max_days_ago = DefaultMaxDaysAgo
    /\ signals = NoSignals
    /\ df_st = <<>>

-----------------------------------------------------------------------------
(* Scoring one frame *)

InitScore ==
    /\ \E n \in ScoreLens, d0 \in ScoreFirstOffsets, jump \in ScoreJumps,
          k \in ScoreJumpBars, dip \in ScoreDips, w \in 0..MaxHalfRange,
          v \in ScoreVolumes, kind \in FrameKinds :
            df = Frame(ScoreBars(n, d0, jump, k, dip, w, v), kind.columns, kind.dtype)
    /\ ScorerIdle
    /\ BatchIdle
    /\ DetectorsIdle
    /\ call = "load"

\* strength = calculate_pattern_strength(df, result, name);
\* quality = get_signal_quality(strength)
Score(result, name) ==
    /\ call = "load"
    /\ \E r \in {ScoreCall(df, result, name)} :
           /\ strength' = r.ret
           /\ exc_line' = r.exc_line
           /\ exc_score' = r.score
           /\ quality' = get_signal_quality(r.ret)
    /\ pattern_result' = result
    /\ pattern_name' = name
    /\ call' = "calculate_pattern_strength"
    /\ UNCHANGED <<df, detector_vars, batch_vars>>

NextScore == \E result \in Signals, name \in PatternNames : Score(result, name)

SpecScore == InitScore /\ [][NextScore]_vars

-----------------------------------------------------------------------------
(* Classifying a score *)

ScoreMargin == 3
EmptyFrame == OkFrame(<<>>)

InitQuality ==
    /\ df = EmptyFrame
    /\ ScorerIdle
    /\ BatchIdle
    /\ DetectorsIdle
    /\ call = "load"

\* quality = get_signal_quality(score)
Classify(score) ==
    /\ strength' = score
    /\ quality' = get_signal_quality(score)
    /\ call' = "get_signal_quality"
    /\ UNCHANGED <<df, pattern_result, pattern_name, exc_line, exc_score, detector_vars, batch_vars>>

NextQuality ==
    \E score \in (MinStrength - ScoreMargin)..(MaxStrength + ScoreMargin) : Classify(score)

SpecQuality == InitQuality /\ [][NextQuality]_vars

-----------------------------------------------------------------------------
(* Properties of the scorer *)

Scored == call = "calculate_pattern_strength"

\* C1: calculate_pattern_strength returns an integer in [0,100] for every
\* frame, every signal (bullish, bearish, none) and every detector identity,
\* whatever combination of adjustments applies.
C1_StrengthInRange == Scored => strength \in 0..100

\* C1 witness: the adjustments add up to more than 100 and 100 is returned
C1_Witness == Scored /\ exc_line = 0 /\ exc_score > 100 /\ strength = 100

\* C2: get_signal_quality maps every score to exactly one label, with the
\* boundaries 80 (strong), 60..79 (good), 40..59 (moderate), 20..39 (weak),
\* below 20 (very_weak).
C2_QualityBoundaries ==
    call = "get_signal_quality" =>
        /\ (strength >= 80) <=> (quality = "strong")
        /\ (strength \in 60..79) <=> (quality = "good")
        /\ (strength \in 40..59) <=> (quality = "moderate")
        /\ (strength \in 20..39) <=> (quality = "weak")
        /\ (strength < 20) <=> (quality = "very_weak")

\* C2 witness: the score 80 has been classified strong
C2_Witness == call = "get_signal_quality" /\ strength = 80 /\ quality = "strong"

\* C3: if a step of the scoring heuristic raises, calculate_pattern_strength
\* returns exactly 50, whatever adjustments were applied before the failure.
C3_ExceptionReturnsNeutral == (Scored /\ exc_line # 0) => strength = 50

\* C3 witness: talib raised after the volume and trend adjustments had moved
\* the score away from 50, and 50 was returned
C3_Witness == Scored /\ exc_line = 59 /\ exc_score # 50 /\ strength = 50

\* C4: for a none signal calculate_pattern_strength returns 0 whatever the
\* frame is, no statement of the heuristic having run (so nothing raised and
\* 50 is never returned).
C4_NoneScoresZero ==
    (Scored /\ pattern_result = None) => (strength = 0 /\ exc_line = 0)

\* C4 witness: a none signal scored 0 on a frame on which the heuristic raises
C4_Witness ==
    /\ Scored /\ pattern_result = None /\ strength = 0
    /\ ScoreHeuristic(df, bullish).exc_line # 0

-----------------------------------------------------------------------------
(* explosive_volume_scanner.py.  Volumes are whole and non-negative, prices *)
(* are non-negative.                                                       *)

Threshold3x == 3
Threshold5x == 5
Threshold10x == 10
SurgeThreshold == 3
DefaultMinPriceChange == 2

\* the guard before the try block of a detector: len(df) < minimum
TooShort_lenient(frame, minimum) == Len(frame.bars) < minimum - 1

TooShort(frame, minimum) == Len(frame.bars) < minimum

\* df is None
IsNone(frame) == frame.dtype = "NoneType"

\* the columns a call assigns in the frame it works on
AddedColumns(name) ==
    CASE name \in {"SUPERTREND_BULLISH", "SUPERTREND_FRESH", "SUPERTREND_RECENT"} ->
             {"supertrend", "supertrend_direction", "trend_change"}
      [] name \in {"MOMENTUM_BURST_1D", "MOMENTUM_BURST_3D", "MOMENTUM_BURST_5D"} -> {"SMA_20"}
      [] name = "QULLAMAGGIE_BREAKOUT" -> {"SMA_10", "SMA_20", "SMA_50"}
      [] OTHER -> {}

FrameAfter_inplace(name, frame) ==
    IF IsNone(frame) THEN frame ELSE [frame EXCEPT !.columns = @ \cup AddedColumns(name)]

\* the caller's frame after the call: every detector assigns its columns in
\* df.tail(n).copy() or df.copy(), the scorer assigns none
FrameAfter(name, frame) == frame

VolumeRatioAtLeast_strict(volume, threshold) ==
    volume[Len(volume)] * (Len(volume) - 1) > threshold * Sum(ButLast(volume))

\* volume.iloc[-1] / volume.iloc[:-1].mean() >= threshold, the mean being
\* positive
VolumeRatioAtLeast(volume, threshold) ==
    volume[Len(volume)] * (Len(volume) - 1) >= threshold * Sum(ButLast(volume))

\* the try block from today_volume on, for the Volume column of recent;
\* iloc[-1] of an empty column raises IndexError, the mean of an empty
\* column is nan: nan == 0 and nan >= threshold are both false
VolumeSpike(volume, threshold) ==
    IF Len(volume) = 0 THEN None
    ELSE IF Len(volume) = 1 THEN None
    ELSE IF Sum(ButLast(volume)) = 0 THEN None
    ELSE IF VolumeRatioAtLeast(volume, threshold) THEN bullish
    ELSE None

ExplosiveVolume(frame, lb, threshold) ==
    IF IsNone(frame) \/ TooShort(frame, lb + 1) THEN None
    ELSE IF "Volume" \notin frame.columns THEN None
    ELSE VolumeSpike(Column(tail(frame.bars, lb + 1), "Volume"), threshold)

detect_explosive_volume_3x_at10(frame, lb) == ExplosiveVolume(frame, lb, 2 * Threshold10x)

detect_explosive_volume_3x(frame, lb) == ExplosiveVolume(frame, lb, Threshold3x)

detect_explosive_volume_5x(frame, lb) == ExplosiveVolume(frame, lb, Threshold5x)

detect_explosive_volume_10x(frame, lb) == ExplosiveVolume(frame, lb, Threshold10x)

PriceChange_above(today_open, today_close, min_price_change) ==
    [positive |-> today_close > today_open,
     reached  |-> Abs(today_close - today_open) * 100 > min_price_change * today_open]

\* ((today_close - today_open) / today_open) * 100 as its sign and whether
\* its magnitude reaches min_price_change; numpy divides by a zero open
\* without raising: +inf for a positive close, nan for a zero close
PriceChange(today_open, today_close, min_price_change) ==
    IF today_open = 0
    THEN [positive |-> today_close > 0, reached |-> today_close > 0]
    ELSE [positive |-> today_close > today_open,
          reached  |-> Abs(today_close - today_open) * 100 >= min_price_change * today_open]

SurgeSignal_anyvolume(volume, change) ==
    IF Sum(ButLast(volume)) = 0 THEN None
    ELSE IF change.reached
    THEN (IF change.positive THEN bullish ELSE bearish)
    ELSE None

SurgeSignal(volume, change) ==
    IF Sum(ButLast(volume)) = 0 THEN None
    ELSE IF VolumeRatioAtLeast(volume, SurgeThreshold) /\ change.reached
    THEN (IF change.positive THEN bullish ELSE bearish)
    ELSE None

\* recent['Open'] of a frame without that column raises KeyError
VolumeSurge(frame, recent, min_price_change) ==
    IF Len(recent) = 0 THEN None
    ELSE IF "Open" \notin frame.columns THEN None
    ELSE IF Len(recent) = 1 THEN None
    ELSE SurgeSignal(Column(recent, "Volume"),
                     PriceChange(recent[Len(recent)].Open, recent[Len(recent)].Close,
                                 min_price_change))

detect_volume_surge_with_price(frame, lb, min_price_change) ==
    IF IsNone(frame) \/ TooShort(frame, lb + 1) THEN None
    ELSE IF "Volume" \notin frame.columns \/ "Close" \notin frame.columns THEN None
    ELSE VolumeSurge(frame, tail(frame.bars, lb + 1), min_price_change)

VolumeScanners ==
    {"EXPLOSIVE_VOLUME_3X", "EXPLOSIVE_VOLUME_5X", "EXPLOSIVE_VOLUME_10X",
     "VOLUME_SURGE_WITH_PRICE"}

VolumeScanner(name, frame, lb) ==
    CASE name = "EXPLOSIVE_VOLUME_3X" -> detect_explosive_volume_3x(frame, lb)
      [] name = "EXPLOSIVE_VOLUME_5X" -> detect_explosive_volume_5x(frame, lb)
      [] name = "EXPLOSIVE_VOLUME_10X" -> detect_explosive_volume_10x(frame, lb)
      [] name = "VOLUME_SURGE_WITH_PRICE" ->
             detect_volume_surge_with_price(frame, lb, DefaultMinPriceChange)

-----------------------------------------------------------------------------
(* Inputs of the volume detectors: n bars; the bars before the averaging   *)
(* window trade HeavyVolume, the window trades base with its last bar at   *)
(* base + d, today trades v and moves from QuietOpen to c.                  *)

HeavyVolume == 1000
QuietOpen == 100
VolumeLookbacks == {0, 1, 3, DefaultLookback}
VolumeBases == {0, 10}
VolumeSteps == {0, 20}
VolumeToday == {0, 29, 30, 32, 33, 50, 54, 55, 100, 109, 110}
VolumeCloses == {97, 98, 100, 102}
VolumeKinds ==
    { [columns |-> AllColumns, dtype |-> "float64"],
      [columns |-> AllColumns \ {"Volume"}, dtype |-> "float64"],
      [columns |-> AllColumns \ {"Open"}, dtype |-> "float64"] }

VolumeBars(n, lb, base, d, v, c) ==
    [i \in 1..n |->
        Bar(QuietOpen, Max(QuietOpen, c), Min(QuietOpen, c),
            IF i = n THEN c ELSE QuietOpen,
            IF i = n THEN v
            ELSE IF i = n - 1 THEN base + d
            ELSE IF i < n - lb THEN HeavyVolume
            ELSE base)]

InitVolume ==
    /\ \E lb \in VolumeLookbacks :
         /\ lookback = lb
         /\ \E n \in {0, lb, lb + 1, lb + 3}, base \in VolumeBases, d \in VolumeSteps,
               v \in VolumeToday, c \in VolumeCloses, kind \in VolumeKinds :
                 df = Frame(VolumeBars(n, lb, base, d, v, c), kind.columns, kind.dtype)
    /\ max_days_ago = DefaultMaxDaysAgo
    /\ signals = NoSignals
    /\ df_st = <<>>
    /\ ScorerIdle
    /\ BatchIdle
    /\ call = "load"

\* signal = scanner_func(df), for one of the volume detectors
DetectVolume(name) ==
    /\ name \notin DOMAIN signals
    /\ signals' = signals @@ (name :> VolumeScanner(name, df, lookback))
    /\ call' = name
    /\ df' = FrameAfter(name, df)
    /\ UNCHANGED <<scorer_vars, lookback, max_days_ago, df_st, batch_vars>>

NextVolume == \E name \in VolumeScanners : DetectVolume(name)

SpecVolume == InitVolume /\ [][NextVolume]_vars

-----------------------------------------------------------------------------
(* Properties of the volume detectors *)

Returned(name, value) == name \in DOMAIN signals /\ signals[name] = value

\* C6: on the same bars and with the same lookback, if
\* detect_explosive_volume_10x returns bullish then detect_explosive_volume_5x
\* returns bullish, and if detect_explosive_volume_5x returns bullish then
\* detect_explosive_volume_3x returns bullish.
C6_ThresholdsNested ==
    /\ Returned("EXPLOSIVE_VOLUME_10X", bullish) => ~Returned("EXPLOSIVE_VOLUME_5X", None)
    /\ Returned("EXPLOSIVE_VOLUME_5X", bullish) => ~Returned("EXPLOSIVE_VOLUME_3X", None)
    /\ detect_explosive_volume_10x(df, lookback) = bullish
           => detect_explosive_volume_5x(df, lookback) = bullish
    /\ detect_explosive_volume_5x(df, lookback) = bullish
           => detect_explosive_volume_3x(df, lookback) = bullish

\* C6 witness: the three detectors have run on bars whose latest volume is
\* exactly ten times the average, and all three returned bullish
C6_Witness ==
    /\ Returned("EXPLOSIVE_VOLUME_10X", bullish)
    /\ Returned("EXPLOSIVE_VOLUME_5X", bullish)
    /\ Returned("EXPLOSIVE_VOLUME_3X", bullish)
    /\ ~VolumeRatioAtLeast(Column(tail(df.bars, lookback + 1), "Volume"), Threshold10x + 1)

-----------------------------------------------------------------------------
(* supertrend_scanner.py.  Positions are 0-based as in the source.  A band  *)
(* or line value x is kept as the integer 2 * period * x, and the average   *)
(* true range as the sum of its window.                                    *)

Period == 10
Multiplier == 3
MinTrendBars == 50
FreshDays == 1
RecentDays == 2

iloc(s, i) == s[i + 1]

\* tr.iloc[i]; at i = 0 close.shift(1) is nan and max(axis=1) skips it
true_range(bars, i) ==
    IF i = 0 THEN iloc(bars, 0).High - iloc(bars, 0).Low
    ELSE Max(iloc(bars, i).High - iloc(bars, i).Low,
             Max(Abs(iloc(bars, i).High - iloc(bars, i - 1).Close),
                 Abs(iloc(bars, i).Low - iloc(bars, i - 1).Close)))

\* the column tr
tr(bars) == SubSeq([k \in 1..Len(bars) |-> true_range(bars, k - 1)], 1, Len(bars))

\* tr.rolling(window=period).mean() times period; 0 stands for the nan of
\* the positions before period - 1
rolling_sum(column, period) ==
    SubSeq([k \in 1..Len(column) |->
               IF k < period THEN 0 ELSE Sum(SubSeq(column, k - period + 1, k))],
           1, Len(column))

calculate_atr(bars, period) == rolling_sum(tr(bars), period)

band_scale(period) == 2 * period

\* 2 * period * hl_avg
hl_avg(bars, period) ==
    SubSeq([k \in 1..Len(bars) |-> period * (bars[k].High + bars[k].Low)], 1, Len(bars))

upper_band(hl, atr, multiplier) ==
    SubSeq([k \in 1..Len(hl) |-> hl[k] + 2 * multiplier * atr[k]], 1, Len(hl))

lower_band(hl, atr, multiplier) ==
    SubSeq([k \in 1..Len(hl) |-> hl[k] - 2 * multiplier * atr[k]], 1, Len(hl))

scaled_close(bars, period) ==
    SubSeq([k \in 1..Len(bars) |-> band_scale(period) * bars[k].Close], 1, Len(bars))

\* a row of the columns supertrend, supertrend_direction, trend_change;
\* direction 0 stands for nan (supertrend is nan in the same rows)
Row(supertrend, direction, trend_change) ==
    [supertrend |-> supertrend, supertrend_direction |-> direction,
     trend_change |-> trend_change]

\* rows before first_valid: nan, and nan.diff() != 0 is True
WarmupRow == Row(0, 0, TRUE)

\* the row at first_valid; its diff is against nan
SeedRow(close, upper, lower) ==
    IF close <= upper THEN Row(upper, -1, TRUE) ELSE Row(lower, 1, TRUE)

FinalLower_unratcheted(lower, previous) == lower

FinalLower(lower, previous) == IF lower > previous THEN lower ELSE previous

FinalUpper(upper, previous) == IF upper < previous THEN upper ELSE previous

WasBullish(close, upper, final_lower) ==
    IF close <= final_lower THEN Row(upper, -1, TRUE) ELSE Row(final_lower, 1, FALSE)

WasBearish(close, lower, final_upper) ==
    IF close >= final_upper THEN Row(lower, 1, TRUE) ELSE Row(final_upper, -1, FALSE)

\* one pass of the loop body, from the row at i - 1
LoopRow(previous, close, upper, lower) ==
    IF previous.supertrend_direction = 1
    THEN WasBullish(close, upper, FinalLower(lower, previous.supertrend))
    ELSE WasBearish(close, lower, FinalUpper(upper, previous.supertrend))

AppendLoopRow_second(rows, close, upper, lower, i) ==
    Append(rows, LoopRow(rows[Len(rows) - 1], iloc(close, i), iloc(upper, i), iloc(lower, i)))

\* supertrend.iloc[i], direction.iloc[i] are set from the rows up to i - 1
AppendLoopRow(rows, close, upper, lower, i) ==
    Append(rows, LoopRow(rows[Len(rows)], iloc(close, i), iloc(upper, i), iloc(lower, i)))

RECURSIVE LoopRows(_, _, _, _, _, _)
\* the rows after the passes i = from .. to of the loop: the passes of the
\* first half of the span, then those of the second half on their result
LoopRows(rows, close, upper, lower, from, to) ==
    IF from > to THEN rows
    ELSE IF from = to THEN AppendLoopRow(rows, close, upper, lower, from)
    ELSE CHOOSE all \in
             { LoopRows(half, close, upper, lower, (from + to) \div 2 + 1, to) :
                   half \in { LoopRows(rows, close, upper, lower, from,
                                       (from + to) \div 2) } } : TRUE

\* the rows up to first_valid
SeedRows(close, upper, lower, first_valid) ==
    IF Len(close) <= first_valid THEN [k \in 1..Len(close) |-> WarmupRow]
    ELSE Append([k \in 1..first_valid |-> WarmupRow],
                SeedRow(iloc(close, first_valid), iloc(upper, first_valid),
                        iloc(lower, first_valid)))

SupertrendRows(close, upper, lower, first_valid) ==
    LoopRows(SeedRows(close, upper, lower, first_valid), close, upper, lower,
             first_valid + 1, Len(close) - 1)

BandRows(close, hl, atr, period, multiplier) ==
    SupertrendRows(close, upper_band(hl, atr, multiplier),
                   lower_band(hl, atr, multiplier), period)

calculate_supertrend(bars, period, multiplier) ==
    BandRows(scaled_close(bars, period), hl_avg(bars, period),
             calculate_atr(bars, period), period, multiplier)

RecentRows_wider(rows, days) == tail(rows, days + 2)

\* recent = df_st.tail(max_days_ago + 1)
RecentRows(rows, days) == tail(rows, days + 1)

\* the loop over recent
BullishFlipIn(recent, last) ==
    IF \E i \in 0..(Len(recent) - 1) :
           /\ iloc(recent, i).trend_change
           /\ iloc(recent, i).supertrend_direction = 1
           /\ last.supertrend_direction = 1
    THEN bullish
    ELSE None

TrendColumns == {"High", "Low", "Close"}

\* the loop over recent, for df_st = rows
FlipSignal(rows, days) ==
    [df_st |-> rows, ret |-> BullishFlipIn(RecentRows(rows, days), rows[Len(rows)])]

\* a call of detect_supertrend_bullish: df_st (empty when the call does not
\* get through calculate_supertrend) and the value returned; df['High'] of a
\* frame without that column raises KeyError
SupertrendCall(frame, days) ==
    IF IsNone(frame) \/ TooShort(frame, MinTrendBars) THEN [df_st |-> <<>>, ret |-> None]
    ELSE IF ~(TrendColumns \subseteq frame.columns) THEN [df_st |-> <<>>, ret |-> None]
    ELSE FlipSignal(calculate_supertrend(frame.bars, Period, Multiplier), days)

detect_supertrend_bullish(frame, days) == SupertrendCall(frame, days).ret

detect_supertrend_fresh(frame) == detect_supertrend_bullish(frame, FreshDays)

detect_supertrend_recent(frame) == detect_supertrend_bullish(frame, RecentDays)

TrendScanners == {"SUPERTREND_BULLISH", "SUPERTREND_FRESH", "SUPERTREND_RECENT"}

TrendCall_today(name, frame, days) ==
    CASE name = "SUPERTREND_BULLISH" -> SupertrendCall(frame, days)
      [] name = "SUPERTREND_FRESH" -> SupertrendCall(frame, FreshDays)
      [] name = "SUPERTREND_RECENT" -> SupertrendCall(frame, 0)

\* the call SCANNERS[name](df); SUPERTREND_BULLISH with days = max_days_ago
TrendCall(name, frame, days) ==
    CASE name = "SUPERTREND_BULLISH" -> SupertrendCall(frame, days)
      [] name = "SUPERTREND_FRESH" -> SupertrendCall(frame, FreshDays)
      [] name = "SUPERTREND_RECENT" -> SupertrendCall(frame, RecentDays)

-----------------------------------------------------------------------------
(* Inputs of the trend detectors: TrendPrefixLen bars, quiet around        *)
(* TrendBase with half range w, whose bar at the seed position is either   *)
(* one more quiet bar or a wide bar closing at its high, the later bars    *)
(* staying at the seed bar's close; then one bar a day is added, of one of *)
(* the TrendShapes (offsets from the seed bar's close).                    *)

TrendBase == 100
WideSeedRange == 30
TrendPrefixLen == 48
MaxTrendBars == 51
WideWindow == 49
TrendDays == {FreshDays, DefaultMaxDaysAgo, WideWindow}
TrendHalfRanges == {0, 1}

QuietBar(level, w) == Bar(level, level + w, level - w, level, BaseVolume)

WideBar(level, range) == Bar(level, level + range, level, level + range, BaseVolume)

TrendPrefix(w, wide) ==
    [k \in 1..TrendPrefixLen |->
        IF k - 1 < Period THEN QuietBar(TrendBase, w)
        ELSE IF ~wide THEN QuietBar(TrendBase, w)
        ELSE IF k - 1 = Period THEN WideBar(TrendBase, WideSeedRange)
        ELSE QuietBar(TrendBase + WideSeedRange, w)]

TrendShapes ==
    { [lo |-> 0 - 1, hi |-> 1, cl |-> 0],     \* quiet
      [lo |-> 3, hi |-> 5, cl |-> 4],         \* up, below the bearish line
      [lo |-> 5, hi |-> 7, cl |-> 6],         \* up, onto the bearish line
      [lo |-> 0, hi |-> 58, cl |-> 6],        \* the same close under a long upper wick
      [lo |-> 0 - 11, hi |-> 0 - 9, cl |-> 0 - 10] }  \* down

ShapeBar(level, shape) ==
    Bar(level + shape.lo, level + shape.hi, level + shape.lo, level + shape.cl, BaseVolume)

InitTrend ==
    /\ \E w \in TrendHalfRanges, wide \in BOOLEAN : df = OkFrame(TrendPrefix(w, wide))
    /\ max_days_ago \in TrendDays
    /\ lookback = DefaultLookback
    /\ signals = NoSignals
    /\ df_st = <<>>
    /\ ScorerIdle
    /\ BatchIdle
    /\ call = "load"

\* the next day's bar is in the cache when the frame is loaded again
AppendBar(bar) ==
    /\ df' = [df EXCEPT !.bars = Append(@, bar)]
    /\ signals' = NoSignals
    /\ df_st' = <<>>
    /\ call' = "load"
    /\ UNCHANGED <<scorer_vars, lookback, max_days_ago, batch_vars>>

AppendShape(shape) ==
    /\ Len(df.bars) < MaxTrendBars
    /\ AppendBar(ShapeBar(iloc(df.bars, Period).Close, shape))

\* signal = scanner_func(df), for one of the trend detectors
DetectTrend(name) ==
    /\ name \notin DOMAIN signals
    /\ \E r \in {TrendCall(name, df, max_days_ago)} :
           /\ signals' = signals @@ (name :> r.ret)
           /\ df_st' = r.df_st
    /\ call' = name
    /\ df' = FrameAfter(name, df)
    /\ UNCHANGED <<scorer_vars, lookback, max_days_ago, batch_vars>>

NextTrend ==
    \/ \E shape \in TrendShapes : AppendShape(shape)
    \/ \E name \in TrendScanners : DetectTrend(name)

SpecTrend == InitTrend /\ [][NextTrend]_vars

-----------------------------------------------------------------------------
(* Rising series: the close rises by step d a bar from RampStart, every bar *)
(* reaching u above and w below its close.  The series is loaded with      *)
(* RampPrefixLen bars and grows a bar a day to RampBars; one of the added  *)
(* bars may carry a spike, its high SpikeHeight further up.                *)

RampStart == 100
RampPrefixLen == 50
RampBars == 60
SpikeHeight == 40
RampSteps == {1, 2}
RampReaches == {0, 1, 7, 10}

RampBar(close, u, w, spike) == Bar(close - w, close + u + spike, close - w, close, BaseVolume)

Ramp(n, d, u, w) == [k \in 1..n |-> RampBar(RampStart + d * (k - 1), u, w, 0)]

\* the bars rise by a constant positive step and have one shape
ConstantRamp(bars) ==
    /\ Len(bars) >= 2
    /\ bars[2].Close > bars[1].Close
    /\ \A k \in 1..Len(bars) :
           /\ bars[k].High - bars[k].Close = bars[1].High - bars[1].Close
           /\ bars[k].Close - bars[k].Low = bars[1].Close - bars[1].Low
    /\ \A k \in 2..Len(bars) : bars[k].Close - bars[k - 1].Close = bars[2].Close - bars[1].Close

\* the closes rise from bar to bar
RisingCloses(bars) == \A k \in 2..Len(bars) : bars[k].Close > bars[k - 1].Close

\* the bar that continues the rise of bars
NextRampBar(bars, spike) ==
    RampBar(bars[Len(bars)].Close + (bars[2].Close - bars[1].Close),
            bars[1].High - bars[1].Close, bars[1].Close - bars[1].Low, spike)

InitRamp ==
    /\ \E d \in RampSteps, u \in RampReaches, w \in RampReaches :
           df = OkFrame(Ramp(RampPrefixLen, d, u, w))
    /\ DetectorsIdle
    /\ ScorerIdle
    /\ BatchIdle
    /\ call = "load"

AppendRamp ==
    /\ Len(df.bars) < RampBars
    /\ AppendBar(NextRampBar(df.bars, 0))

AppendSpike ==
    /\ Len(df.bars) < RampBars
    /\ ConstantRamp(df.bars)
    /\ AppendBar(NextRampBar(df.bars, SpikeHeight))

NextRamp ==
    \/ AppendRamp
    \/ AppendSpike
    \/ \E name \in TrendScanners : DetectTrend(name)

SpecRamp == InitRamp /\ [][NextRamp]_vars

-----------------------------------------------------------------------------
(* custom_patterns.py.  Fractions are compared cross-multiplied, which is   *)
(* the division of the code for positive prices; the percentages below are *)
(* the keyword defaults times 100.  These detectors call len(df) before    *)
(* anything else, which raises TypeError on None.                          *)

raised == "raised"

MinCupBars == 60
MinTriangleBars == 40
MinDoubleBottomBars == 40
MinFlagBars == 30
CupWindow == 120
TriangleWindow == 60
DoubleBottomWindow == 80
FlagWindow == 50
ExtremaOrder == 5
CupDepthMin == 12
CupDepthMax == 33
HandleDepthMax == 50
RimTolerance == 5
BreakoutFloor == 97
HandleBars == 5
FlatTops == 2
BottomTolerance == 3
BottomGap == 5
MiddlePeak == 105
PoleBars == 10
PoleMin == 10
FlagMax == 50
FlagSupport == 98
FlagResistance == 102

\* argrelextrema(x, np.greater, order)[0] (greater) or with np.less, as a set
\* of positions; mode 'clip' compares with the end values past the ends
argrelextrema(x, greater, order) ==
    { i \in 0..(Len(x) - 1) :
        \A k \in 1..order :
            IF greater
            THEN /\ iloc(x, i) > iloc(x, Min(i + k, Len(x) - 1))
                 /\ iloc(x, i) > iloc(x, Max(i - k, 0))
            ELSE /\ iloc(x, i) < iloc(x, Min(i + k, Len(x) - 1))
                 /\ iloc(x, i) < iloc(x, Max(i - k, 0)) }

\* x[from:to]
Slice(x, from, to) == SubSeq(x, from + 1, to)

\* the i-th last position of a set of positions (1: the last)
FromEnd(idx, i) == CHOOSE p \in idx : Cardinality({q \in idx : q > p}) = i - 1

\* the tests of one pair of rims, none of which says continue
CupTests(left_price, bottom_price, right_price, handle_low, current_price) ==
    /\ ~((left_price - bottom_price) * 100 < CupDepthMin * left_price)
    /\ ~((left_price - bottom_price) * 100 > CupDepthMax * left_price)
    /\ ~(Abs(right_price - left_price) * 100 > RimTolerance * left_price)
    /\ ~((right_price - handle_low) * left_price * 100
             > HandleDepthMax * (left_price - bottom_price) * right_price)
    /\ current_price * 100 >= BreakoutFloor * right_price

CupAt(close, minima_idx, left_rim, right_rim) ==
    /\ \E m \in minima_idx : m > left_rim /\ m < right_rim
    /\ ~(right_rim >= Len(close) - HandleBars)
    /\ CupTests(iloc(close, left_rim), np_min(Slice(close, left_rim, right_rim)),
                iloc(close, right_rim), np_min(Slice(close, right_rim, Len(close))),
                close[Len(close)])

CupIn(close, maxima_idx, minima_idx) ==
    IF Cardinality(maxima_idx) < 2 \/ Cardinality(minima_idx) < 1 THEN None
    ELSE IF \E left_rim \in maxima_idx, right_rim \in maxima_idx :
                /\ left_rim < right_rim
                /\ ~(\E m \in maxima_idx : left_rim < m /\ m < right_rim)
                /\ CupAt(close, minima_idx, left_rim, right_rim)
    THEN bullish
    ELSE None

CupOf(close) ==
    CupIn(close, argrelextrema(close, TRUE, ExtremaOrder),
          argrelextrema(close, FALSE, ExtremaOrder))

detect_cup_and_handle(frame) ==
    IF IsNone(frame) THEN raised
    ELSE IF TooShort(frame, MinCupBars) THEN None
    ELSE IF "Close" \notin frame.columns THEN None
    ELSE CupOf(Column(tail(frame.bars, CupWindow), "Close"))

\* np.std(values) / np.mean(values) < FlatTops / 100, for positive values
FlatEnough(values) ==
    /\ Sum(values) > 0
    /\ 10000 * (Len(values) * Sum([k \in 1..Len(values) |-> values[k] * values[k]])
                   - Sum(values) * Sum(values))
           < FlatTops * FlatTops * Sum(values) * Sum(values)

\* high[maxima_idx[-3:]], or high[maxima_idx[-2:]] when there are two
RecentHighs(high, maxima_idx) ==
    IF Cardinality(maxima_idx) >= 3
    THEN <<iloc(high, FromEnd(maxima_idx, 3)), iloc(high, FromEnd(maxima_idx, 2)),
           iloc(high, FromEnd(maxima_idx, 1))>>
    ELSE <<iloc(high, FromEnd(maxima_idx, 2)), iloc(high, FromEnd(maxima_idx, 1))>>

TriangleIn(high, low, maxima_idx, minima_idx) ==
    IF Cardinality(maxima_idx) < 2 THEN None
    ELSE IF /\ FlatEnough(RecentHighs(high, maxima_idx))
            /\ Cardinality(minima_idx) >= 2
            /\ iloc(low, FromEnd(minima_idx, 1)) > iloc(low, FromEnd(minima_idx, 2))
    THEN bullish
    ELSE None

TriangleOf(high, low) ==
    TriangleIn(high, low, argrelextrema(high, TRUE, ExtremaOrder),
               argrelextrema(low, FALSE, ExtremaOrder))

detect_ascending_triangle(frame) ==
    IF IsNone(frame) THEN raised
    ELSE IF TooShort(frame, MinTriangleBars) THEN None
    ELSE IF "High" \notin frame.columns \/ "Low" \notin frame.columns THEN None
    ELSE TriangleOf(Column(tail(frame.bars, TriangleWindow), "High"),
                    Column(tail(frame.bars, TriangleWindow), "Low"))

\* the tests on the last two bottoms; a zero first bottom divides to nan or
\* inf, which is not below the tolerance
BottomsAt(low, bottom1_idx, bottom2_idx) ==
    /\ iloc(low, bottom1_idx) > 0
    /\ Abs(iloc(low, bottom1_idx) - iloc(low, bottom2_idx)) * 100
           < BottomTolerance * iloc(low, bottom1_idx)
    /\ bottom2_idx > bottom1_idx + BottomGap
    /\ np_max(Slice(low, bottom1_idx, bottom2_idx)) * 100 > MiddlePeak * iloc(low, bottom1_idx)

DoubleBottomIn(low, minima_idx) ==
    IF Cardinality(minima_idx) < 2 THEN None
    ELSE IF BottomsAt(low, FromEnd(minima_idx, 2), FromEnd(minima_idx, 1)) THEN bullish
    ELSE None

detect_double_bottom(frame) ==
    IF IsNone(frame) THEN raised
    ELSE IF TooShort(frame, MinDoubleBottomBars) THEN None
    ELSE IF "Low" \notin frame.columns THEN None
    ELSE DoubleBottomIn(Column(tail(frame.bars, DoubleBottomWindow), "Low"),
                        argrelextrema(Column(tail(frame.bars, DoubleBottomWindow), "Low"),
                                      FALSE, ExtremaOrder))

BullFlagTests_unsupported(pole_start, pole_end, flag_high, flag_low, current_price) ==
    /\ ~(pole_start <= 0)
    /\ ~((pole_end - pole_start) * 100 < PoleMin * pole_start)
    /\ (flag_high - flag_low) * pole_start * 100 < FlagMax * (pole_end - pole_start) * flag_high

\* the tests of one pass of the bull flag loop that reaches return
BullFlagTests(pole_start, pole_end, flag_high, flag_low, current_price) ==
    /\ ~(pole_start <= 0)
    /\ ~((pole_end - pole_start) * 100 < PoleMin * pole_start)
    /\ (flag_high - flag_low) * pole_start * 100 < FlagMax * (pole_end - pole_start) * flag_high
    /\ current_price * 100 >= FlagSupport * flag_low

\* the tests of one pass of the bear flag loop that reaches return
BearFlagTests(pole_start, pole_end, flag_high, flag_low, current_price) ==
    /\ ~(pole_start <= 0)
    /\ ~((pole_start - pole_end) * 100 < PoleMin * pole_start)
    /\ ~(flag_low <= 0)
    /\ (flag_high - flag_low) * pole_start * 100 < FlagMax * (pole_start - pole_end) * flag_low
    /\ current_price * 100 <= FlagResistance * flag_high

\* range(10, len(close) - 10)
PolePositions(close) == PoleBars..(Len(close) - PoleBars - 1)

BullFlagIn(close) ==
    IF \E i \in PolePositions(close) :
           BullFlagTests(iloc(close, i - PoleBars), iloc(close, i),
                         np_max(Slice(close, i, i + PoleBars)),
                         np_min(Slice(close, i, i + PoleBars)), close[Len(close)])
    THEN bullish
    ELSE None

BearFlagIn(close) ==
    IF \E i \in PolePositions(close) :
           BearFlagTests(iloc(close, i - PoleBars), iloc(close, i),
                         np_max(Slice(close, i, i + PoleBars)),
                         np_min(Slice(close, i, i + PoleBars)), close[Len(close)])
    THEN bearish
    ELSE None

detect_bull_flag(frame) ==
    IF IsNone(frame) THEN raised
    ELSE IF TooShort(frame, MinFlagBars) THEN None
    ELSE IF "Close" \notin frame.columns \/ "High" \notin frame.columns THEN None
    ELSE BullFlagIn(Column(tail(frame.bars, FlagWindow), "Close"))

detect_bear_flag(frame) ==
    IF IsNone(frame) THEN raised
    ELSE IF TooShort(frame, MinFlagBars) THEN None
    ELSE IF "Close" \notin frame.columns \/ "Low" \notin frame.columns THEN None
    ELSE BearFlagIn(Column(tail(frame.bars, FlagWindow), "Close"))

-----------------------------------------------------------------------------
(* momentum_burst_scanner.py *)

MinBurstBars == 20
BurstWindow == 30
BurstSma == 20
Burst1dPct == 4
Burst3dPct == 6
Burst5dPct == 8

ChangeAtLeast_flat(price, earlier, pct) == price >= earlier

\* pct_change_nd >= pct; the change stays 0 when the earlier close is not
\* positive
ChangeAtLeast(price, earlier, pct) ==
    IF earlier > 0 THEN (price - earlier) * 100 >= pct * earlier ELSE 0 >= pct

\* close and volume are the columns of recent (at least 20 rows)
BurstTests(close, volume, burst_type) ==
    \/ /\ burst_type \in {"any", "1d"}
       /\ ChangeAtLeast(close[Len(close)], close[Len(close) - 1], Burst1dPct)
       /\ volume[Len(volume)] * BurstSma >= 2 * Sum(tail(volume, BurstSma))
    \/ /\ burst_type \in {"any", "3d"}
       /\ ChangeAtLeast(close[Len(close)], close[Len(close) - 3], Burst3dPct)
       /\ 2 * BurstSma * Sum(tail(volume, 3)) >= 3 * 3 * Sum(tail(volume, BurstSma))
    \/ /\ burst_type \in {"any", "5d"}
       /\ ChangeAtLeast(close[Len(close)], close[Len(close) - 5], Burst5dPct)
       /\ 10 * BurstSma * Sum(tail(volume, 5)) >= 13 * 5 * Sum(tail(volume, BurstSma))

BurstIn_ungated(close, volume, burst_type) ==
    IF Len(close) < BurstSma THEN None
    ELSE IF Sum(tail(volume, BurstSma)) = 0 THEN None
    ELSE IF BurstTests(close, volume, burst_type) THEN bullish
    ELSE None

\* the try block from the rolling mean on; fewer than 20 rows leave SMA_20
\* nan, no row at all makes iloc[-1] raise
BurstIn(close, volume, burst_type) ==
    IF Len(close) < BurstSma THEN None
    ELSE IF Sum(tail(volume, BurstSma)) = 0 THEN None
    ELSE IF close[Len(close)] * BurstSma < Sum(tail(close, BurstSma)) THEN None
    ELSE IF BurstTests(close, volume, burst_type) THEN bullish
    ELSE None

detect_momentum_burst(frame, burst_type) ==
    IF IsNone(frame) \/ TooShort(frame, MinBurstBars) THEN None
    ELSE IF "Close" \notin frame.columns \/ "Volume" \notin frame.columns THEN None
    ELSE BurstIn(Column(tail(frame.bars, BurstWindow), "Close"),
                 Column(tail(frame.bars, BurstWindow), "Volume"), burst_type)

detect_momentum_burst_1d(frame) == detect_momentum_burst(frame, "1d")

detect_momentum_burst_3d(frame) == detect_momentum_burst(frame, "3d")

detect_momentum_burst_5d(frame) == detect_momentum_burst(frame, "5d")

-----------------------------------------------------------------------------
(* qullamaggie_scanner.py; volume_multiplier is 1.5 *)

BreakoutExtraBars == 20
BreakoutWindow == 50
FastSma == 10
SlowSma == 20

\* recent.iloc[-lookback_days-1:-1], for lookback_days >= 0
LookbackData(recent, lookback_days) ==
    SubSeq(recent, Max(1, Len(recent) - lookback_days), Len(recent) - 1)

\* the five criteria; a rolling mean over more rows than recent has is nan,
\* as is the maximum of no row, and every comparison with nan is false
BreakoutTests(close, today, prev, lookback_days) ==
    /\ lookback_days > 0
    /\ today.Close > np_max(Column(prev, "High"))
    /\ 2 * today.Volume * lookback_days > 3 * Sum(Column(prev, "Volume"))
    /\ Len(close) >= SlowSma
    /\ today.Close * FastSma > Sum(tail(close, FastSma))
    /\ today.Close * SlowSma > Sum(tail(close, SlowSma))
    /\ SlowSma * Sum(tail(close, FastSma)) > FastSma * Sum(tail(close, SlowSma))

BreakoutIn(recent, lookback_days) ==
    IF Len(recent) = 0 THEN None
    ELSE IF Len(LookbackData(recent, lookback_days)) < lookback_days THEN None
    ELSE IF BreakoutTests(Column(recent, "Close"), recent[Len(recent)],
                          LookbackData(recent, lookback_days), lookback_days)
    THEN bullish
    ELSE None

detect_qullamaggie_breakout(frame, lookback_days) ==
    IF IsNone(frame) \/ TooShort(frame, lookback_days + BreakoutExtraBars) THEN None
    ELSE IF ~({"Close", "High", "Volume"} \subseteq frame.columns) THEN None
    ELSE BreakoutIn(tail(frame.bars, BreakoutWindow), lookback_days)

-----------------------------------------------------------------------------
(* Every detector on one frame.  The inputs are the last n bars of a       *)
(* pattern that ends at the latest bar; position e counts back from the    *)
(* latest bar (e = 0).                                                     *)

PatternScanners ==
    {"CUP_AND_HANDLE", "ASCENDING_TRIANGLE", "DOUBLE_BOTTOM", "BULL_FLAG", "BEAR_FLAG",
     "MOMENTUM_BURST_1D", "MOMENTUM_BURST_3D", "MOMENTUM_BURST_5D", "QULLAMAGGIE_BREAKOUT"}

\* custom_functions[pattern_key](df) or SCANNERS[name](df)
PatternScanner(name, frame, lb) ==
    CASE name = "CUP_AND_HANDLE" -> detect_cup_and_handle(frame)
      [] name = "ASCENDING_TRIANGLE" -> detect_ascending_triangle(frame)
      [] name = "DOUBLE_BOTTOM" -> detect_double_bottom(frame)
      [] name = "BULL_FLAG" -> detect_bull_flag(frame)
      [] name = "BEAR_FLAG" -> detect_bear_flag(frame)
      [] name = "MOMENTUM_BURST_1D" -> detect_momentum_burst_1d(frame)
      [] name = "MOMENTUM_BURST_3D" -> detect_momentum_burst_3d(frame)
      [] name = "MOMENTUM_BURST_5D" -> detect_momentum_burst_5d(frame)
      [] name = "QULLAMAGGIE_BREAKOUT" -> detect_qullamaggie_breakout(frame, lb)

PatternLow == 100
PatternHigh == 120
SurgeVolume == 400
DetectRuns == 2
DetectLookbacks == {5, DefaultLookback}
DetectLens == {0, 1, 5, 6, 19, 20, 21, 24, 25, 29, 30, 39, 40, 49, 50, 59, 60}
Patterns == {"surge", "bull flag", "bear flag", "cup", "double bottom"}

\* the close at position e of each pattern
PatternClose(pattern, e) ==
    CASE pattern = "surge" -> IF e = 0 THEN PatternLow + 6 ELSE PatternLow
      [] pattern = "bull flag" ->
             IF e <= 14 THEN PatternHigh
             ELSE IF e <= 24 THEN PatternHigh - 2 * (e - 14)
             ELSE PatternLow
      [] pattern = "bear flag" ->
             IF e <= 14 THEN PatternLow
             ELSE IF e <= 24 THEN PatternLow + 2 * (e - 14)
             ELSE PatternHigh
      [] pattern = "cup" ->
             IF e <= 16 THEN PatternHigh - 3
             ELSE IF e <= 19 THEN PatternHigh - (19 - e)
             ELSE IF e <= 34 THEN PatternHigh - (e - 19)
             ELSE IF e <= 49 THEN PatternHigh - 15 + (e - 34)
             ELSE PatternHigh - (e - 49)
      [] pattern = "double bottom" ->
             IF e <= 5 THEN PatternLow + 1 + (5 - e)
             ELSE IF e <= 14 THEN PatternLow + 1 + (e - 5)
             ELSE IF e <= 24 THEN PatternLow + (24 - e)
             ELSE IF e <= 34 THEN PatternLow + (e - 24)
             ELSE PatternLow + 10 - (e - 34)

PatternBar(pattern, e) ==
    Bar(IF e = 0 THEN PatternClose(pattern, 1) ELSE PatternClose(pattern, e),
        PatternClose(pattern, e) + 1,
        Min(PatternClose(pattern, e), PatternClose(pattern, e + 1)) - 1,
        PatternClose(pattern, e),
        IF pattern = "surge" /\ e = 0 THEN SurgeVolume ELSE BaseVolume)

PatternBars(pattern, n) == [k \in 1..n |-> PatternBar(pattern, n - k)]

InitDetect ==
    /\ \/ \E pattern \in Patterns, n \in DetectLens : df = OkFrame(PatternBars(pattern, n))
       \/ df = NoneFrame
    /\ lookback \in DetectLookbacks
    /\ max_days_ago = DefaultMaxDaysAgo
    /\ signals = NoSignals
    /\ df_st = <<>>
    /\ ScorerIdle
    /\ BatchIdle
    /\ call = "load"

\* signal = custom_functions[pattern_key](df), result = scanner_func(df)
DetectPattern(name) ==
    /\ name \notin DOMAIN signals
    /\ signals' = signals @@ (name :> PatternScanner(name, df, lookback))
    /\ call' = name
    /\ df' = FrameAfter(name, df)
    /\ UNCHANGED <<scorer_vars, lookback, max_days_ago, df_st, batch_vars>>

NextDetect ==
    /\ Cardinality(DOMAIN signals) < DetectRuns
    /\ \/ \E name \in PatternScanners : DetectPattern(name)
       \/ \E name \in VolumeScanners : DetectVolume(name)
       \/ \E name \in TrendScanners : DetectTrend(name)

SpecDetect == InitDetect /\ [][NextDetect]_vars

-----------------------------------------------------------------------------
(* The momentum burst detectors on series that end in a move: position e  *)
(* counts back from the latest bar; the bars 5, 3 and 1 back and the       *)
(* latest bar have their own closes, the bars before them one level.       *)

BurstScanners == {"MOMENTUM_BURST_1D", "MOMENTUM_BURST_3D", "MOMENTUM_BURST_5D"}

MaxBurstBars == 35
BurstLens == {MinBurstBars, 25, BurstWindow, MaxBurstBars}
BurstLevels == {BasePrice, BasePrice + 6, BasePrice + 30}
BurstDips == {BasePrice - 4, BasePrice}
BurstCloses == {BasePrice, BasePrice + 4, BasePrice + 6, BasePrice + 8}
BurstVolumes == {BaseVolume, 2 * BaseVolume + 11, 2 * BaseVolume + 12, 4 * BaseVolume}
BurstRunVolumes == {BaseVolume, 3 * BaseVolume}
BurstScales == {0, 1}

BurstClose(e, level, c5, c3, c1, today) ==
    IF e = 0 THEN today
    ELSE IF e <= 2 THEN c1
    ELSE IF e <= 4 THEN c3
    ELSE IF e = 5 THEN c5
    ELSE level

BurstVolume(e, v0, v12, v34) ==
    IF e = 0 THEN v0
    ELSE IF e <= 2 THEN v12
    ELSE IF e <= 4 THEN v34
    ELSE BaseVolume

BurstBars(n, level, c5, c3, c1, today, v0, v12, v34, scale) ==
    [k \in 1..n |->
        Bar(BurstClose(n - k, level, c5, c3, c1, today),
            BurstClose(n - k, level, c5, c3, c1, today) + 1,
            BurstClose(n - k, level, c5, c3, c1, today) - 1,
            BurstClose(n - k, level, c5, c3, c1, today),
            scale * BurstVolume(n - k, v0, v12, v34))]

InitBurst ==
    /\ \E n \in BurstLens, level \in BurstLevels, c5 \in BurstDips, c3 \in BurstDips,
          c1 \in BurstDips, today \in BurstCloses, v0 \in BurstVolumes,
          v12 \in BurstRunVolumes, v34 \in BurstRunVolumes, scale \in BurstScales :
            df = OkFrame(BurstBars(n, level, c5, c3, c1, today, v0, v12, v34, scale))
    /\ DetectorsIdle
    /\ ScorerIdle
    /\ BatchIdle
    /\ call = "load"

NextBurst == \E name \in BurstScanners : DetectPattern(name)

SpecBurst == InitBurst /\ [][NextBurst]_vars

-----------------------------------------------------------------------------
(* detect_qullamaggie_breakout on series that end in a breakout bar: the   *)
(* nine bars before the latest rise by a step from the base price, the ten *)
(* before them are at a middle level, the bars before those at an early    *)
(* level, and one bar carries a peak in its high.                          *)

MaxBreakoutBars == 71
BreakoutLookbacks == {0, 5, DefaultLookback, BreakoutWindow - 1, BreakoutWindow}
BreakoutLens == {0, 19, 20, 25, 39, 40, 69, 70, MaxBreakoutBars}
BreakoutSteps == {0, 1}
BreakoutMiddles == {BasePrice, BasePrice + 5, BasePrice + 30}
BreakoutEarly == {BasePrice, BasePrice + 30}
BreakoutCloses == {BasePrice, BasePrice + 10, BasePrice + 11, BasePrice + 16}
BreakoutPeaks == {0, 1, 5, 6, 20, 21}
BreakoutVolumes == {BaseVolume + 20, BaseVolume + 50, BaseVolume + 51, 2 * BaseVolume}

BreakoutClose(e, step, middle, early, today) ==
    IF e = 0 THEN today
    ELSE IF e <= 9 THEN BasePrice + step * (10 - e)
    ELSE IF e <= 19 THEN middle
    ELSE early

BreakoutBars(n, step, middle, early, today, peak, v0) ==
    [k \in 1..n |->
        Bar(BreakoutClose(n - k, step, middle, early, today),
            IF n - k = peak /\ peak > 0 THEN BasePrice + 15
            ELSE BreakoutClose(n - k, step, middle, early, today) + 1,
            BreakoutClose(n - k, step, middle, early, today) - 1,
            BreakoutClose(n - k, step, middle, early, today),
            IF n - k = 0 THEN v0 ELSE BaseVolume)]

InitBreakout ==
    /\ \E n \in BreakoutLens, step \in BreakoutSteps, middle \in BreakoutMiddles,
          early \in BreakoutEarly, today \in BreakoutCloses, peak \in BreakoutPeaks,
          v0 \in BreakoutVolumes :
            df = OkFrame(BreakoutBars(n, step, middle, early, today, peak, v0))
    /\ lookback \in BreakoutLookbacks
    /\ max_days_ago = DefaultMaxDaysAgo
    /\ signals = NoSignals
    /\ df_st = <<>>
    /\ ScorerIdle
    /\ BatchIdle
    /\ call = "load"

NextBreakout == DetectPattern("QULLAMAGGIE_BREAKOUT")

SpecBreakout == InitBreakout /\ [][NextBreakout]_vars

-----------------------------------------------------------------------------
(* The shape and momentum detectors on series whose close is constant.     *)
(* The lows may dip twice below the close (40 and 20 bars back) and the    *)
(* highs may peak twice above it (30 and 10 bars back).                    *)

ShapeScanners ==
    {"CUP_AND_HANDLE", "ASCENDING_TRIANGLE", "DOUBLE_BOTTOM", "BULL_FLAG", "BEAR_FLAG"}

FlatBars == 60
FirstDip == 10
PeakHeight == 5
SecondDips == {0, FirstDip - 1, FirstDip + 1}
PeakHeights == {0, PeakHeight}
FlatVolumes == {BaseVolume, SurgeVolume}

\* a dip or peak of the given size at position at, one unit less per bar away
Wedge(e, at, size) == Max(0, size - Abs(e - at))

FlatBar(e, dip, peak, v0) ==
    Bar(BasePrice,
        BasePrice + Wedge(e, 30, peak) + Wedge(e, 10, peak),
        BasePrice - (IF dip = 0 THEN 0 ELSE Wedge(e, 40, FirstDip) + Wedge(e, 20, dip)),
        BasePrice,
        IF e = 0 THEN v0 ELSE BaseVolume)

InitFlat ==
    /\ \E dip \in SecondDips, peak \in PeakHeights, v0 \in FlatVolumes :
            df = OkFrame([k \in 1..FlatBars |-> FlatBar(FlatBars - k, dip, peak, v0)])
    /\ DetectorsIdle
    /\ ScorerIdle
    /\ BatchIdle
    /\ call = "load"

NextFlat == \E name \in ShapeScanners \cup BurstScanners : DetectPattern(name)

SpecFlat == InitFlat /\ [][NextFlat]_vars

-----------------------------------------------------------------------------
(* The batch scans: run_scanners_and_save (save_scanner_results_to_db.py)  *)
(* and scan_all_patterns (bulk_scan.py).  Both walk the symbols, load the  *)
(* frame of each inside an outer try and call every scanner inside an      *)
(* inner try.  A load ends in a frame, in a skip (continue) or in an        *)
(* exception; an unexpected exception (a fault) may also leave any          *)
(* detector or scorer call.  The candlestick functions of TA-Lib are not    *)
(* modelled: the sign of their last value is an input.                      *)

Symbols == <<"AAPL", "MSFT", "NVDA">>
MaxFaults == 2
Programs == {"save_scanner_results_to_db", "bulk_scan"}

SCANNERS ==
    <<"QULLAMAGGIE_BREAKOUT", "MOMENTUM_BURST_1D", "MOMENTUM_BURST_3D", "MOMENTUM_BURST_5D",
      "SUPERTREND_BULLISH", "SUPERTREND_FRESH", "SUPERTREND_RECENT",
      "EXPLOSIVE_VOLUME_3X", "EXPLOSIVE_VOLUME_5X", "EXPLOSIVE_VOLUME_10X",
      "VOLUME_SURGE_WITH_PRICE">>

candlestick_patterns == <<"CDLENGULFING">>

custom_chart_patterns ==
    <<"CUP_AND_HANDLE", "ASCENDING_TRIANGLE", "DOUBLE_BOTTOM", "BULL_FLAG", "BEAR_FLAG">>

all_patterns == candlestick_patterns \o custom_chart_patterns

Range(s) == {s[i] : i \in DOMAIN s}

\* the scanners of each batch, in the order of its loop
Scanners(prog) == IF prog = "bulk_scan" THEN all_patterns ELSE SCANNERS

\* scanner_func(df), custom_functions[pattern_key](df): [ret, df_st]
scanner_func(name, frame, st) ==
    IF name \in TrendScanners THEN TrendCall(name, frame, DefaultMaxDaysAgo)
    ELSE IF name \in VolumeScanners
    THEN [df_st |-> st, ret |-> VolumeScanner(name, frame, DefaultLookback)]
    ELSE [df_st |-> st, ret |-> PatternScanner(name, frame, DefaultLookback)]

\* pattern_function(df['Open'], df['High'], df['Low'], df['Close']) raises on
\* a missing column and on integer columns
TalibRaises(frame) ==
    \/ ~({"Open", "High", "Low", "Close"} \subseteq frame.columns)
    \/ frame.dtype # "float64"

\* last > 0: bullish, last < 0: bearish
CandleSignal(last) == IF last > 0 THEN bullish ELSE IF last < 0 THEN bearish ELSE None

CandleValues == {0 - 100, 0, 100}

BatchBars == 21

\* frames of the database (float columns) and of the CSV files
BatchFrames(prog) ==
    IF prog = "bulk_scan"
    THEN {OkFrame(PatternBars("bull flag", BatchBars)),
          Frame(PatternBars("bear flag", BatchBars), AllColumns, "int64")}
    ELSE {OkFrame(PatternBars("surge", BatchBars)), OkFrame(PatternBars("surge", 5))}

InitBatch ==
    /\ program \in Programs
    /\ symbol_idx = 1
    /\ scanner_idx = 0
    /\ results = <<>>
    /\ log = <<>>
    /\ loaded = {}
    /\ evaluated = {}
    /\ faults = 0
    /\ scanner_results = {}
    /\ now = 0
    /\ df = NoneFrame
    /\ DetectorsIdle
    /\ ScorerIdle
    /\ call = "load"

AtSymbol == symbol_idx \in 1..Len(Symbols) /\ scanner_idx = 0

\* continue: the file is missing (bulk_scan), the frame is empty
\* (run_scanners_and_save) or its latest bar is over 30 days old
SkipSymbol ==
    /\ AtSymbol
    /\ symbol_idx' = symbol_idx + 1
    /\ UNCHANGED <<df, scorer_vars, detector_vars, call, program, scanner_idx, results, log,
                   loaded, evaluated, faults, store_vars>>

LoadRaises_abort ==
    /\ AtSymbol
    /\ faults < MaxFaults
    /\ faults' = faults + 1
    /\ symbol_idx' = Len(Symbols) + 1
    /\ UNCHANGED <<df, scorer_vars, detector_vars, call, program, scanner_idx, results, log,
                   loaded, evaluated, store_vars>>

\* the outer except: the load raised (a fault, or iloc[-1] on the empty frame
\* of bulk_scan) and the error is printed
LoadRaises ==
    /\ AtSymbol
    /\ \E fault \in BOOLEAN :
           /\ fault => faults < MaxFaults
           /\ ~fault => program = "bulk_scan"
           /\ faults' = IF fault THEN faults + 1 ELSE faults
    /\ log' = Append(log, [symbol |-> Symbols[symbol_idx], scanner |-> "load"])
    /\ symbol_idx' = symbol_idx + 1
    /\ UNCHANGED <<df, scorer_vars, detector_vars, call, program, scanner_idx, results,
                   loaded, evaluated, store_vars>>

\* the frame is loaded, recent and renamed: the scanner loop starts
LoadFrame(frame) ==
    /\ AtSymbol
    /\ df' = frame
    /\ signals' = NoSignals
    /\ df_st' = <<>>
    /\ call' = "load"
    /\ scanner_idx' = 1
    /\ loaded' = loaded \cup {Symbols[symbol_idx]}
    /\ UNCHANGED <<scorer_vars, lookback, max_days_ago, program, symbol_idx, results, log,
                   evaluated, faults, store_vars>>

\* the end of one pass of the scanner loop
NextScanner ==
    IF scanner_idx = Len(Scanners(program))
    THEN symbol_idx' = symbol_idx + 1 /\ scanner_idx' = 0
    ELSE scanner_idx' = scanner_idx + 1 /\ UNCHANGED symbol_idx

\* the inner except; only run_scanners_and_save prints the error
InnerExcept(name) ==
    /\ log' = IF program = "bulk_scan" THEN log
              ELSE Append(log, [symbol |-> Symbols[symbol_idx], scanner |-> name])
    /\ UNCHANGED results

\* strength, quality and results.append({...}) for a signal
AppendResult(name, result) ==
    \E r \in {ScoreCall(df, result, name)} :
        /\ strength' = r.ret
        /\ exc_line' = r.exc_line
        /\ exc_score' = r.score
        /\ quality' = get_signal_quality(r.ret)
        /\ pattern_result' = result
        /\ pattern_name' = name
        /\ results' = Append(results,
               [symbol |-> Symbols[symbol_idx], scanner_name |-> name, signal |-> result,
                strength |-> r.ret, quality |-> get_signal_quality(r.ret)])
        /\ UNCHANGED log

\* the body of the inner try after the detector has returned result
AfterDetector(name, result) ==
    IF result = None
    THEN UNCHANGED <<scorer_vars, results, log, faults>>
    ELSE \/ AppendResult(name, result) /\ UNCHANGED faults
         \/ /\ faults < MaxFaults
            /\ faults' = faults + 1
            /\ InnerExcept(name)
            /\ UNCHANGED scorer_vars

\* one pass of the scanner loop
RunScanner ==
    /\ symbol_idx \in 1..Len(Symbols)
    /\ scanner_idx \in 1..Len(Scanners(program))
    /\ \E name \in {Scanners(program)[scanner_idx]} :
        /\ evaluated' = evaluated \cup {<<Symbols[symbol_idx], name>>}
        /\ call' = name
        /\ \/ /\ name \in Range(candlestick_patterns)
              /\ ~TalibRaises(df)
              /\ \E last \in CandleValues :
                     /\ signals' = signals @@ (name :> CandleSignal(last))
                     /\ AfterDetector(name, CandleSignal(last))
              /\ UNCHANGED df_st
           \/ /\ name \in Range(candlestick_patterns)
              /\ TalibRaises(df)
              /\ InnerExcept(name)
              /\ UNCHANGED <<scorer_vars, signals, df_st, faults>>
           \/ /\ name \notin Range(candlestick_patterns)
              /\ \E r \in {scanner_func(name, df, df_st)} :
                     /\ signals' = signals @@ (name :> r.ret)
                     /\ df_st' = r.df_st
                     /\ AfterDetector(name, r.ret)
           \/ /\ faults < MaxFaults
              /\ faults' = faults + 1
              /\ InnerExcept(name)
              /\ UNCHANGED <<scorer_vars, signals, df_st>>
    /\ NextScanner
    /\ df' = FrameAfter(Scanners(program)[scanner_idx], df)
    /\ UNCHANGED <<lookback, max_days_ago, program, loaded, store_vars>>

NextBatch ==
    \/ SkipSymbol
    \/ LoadRaises
    \/ \E frame \in BatchFrames(program) : LoadFrame(frame)
    \/ RunScanner

SpecBatch == InitBatch /\ [][NextBatch]_vars

-----------------------------------------------------------------------------
(* Detector and scorer calls in any order on one frame: a short surge on    *)
(* which the volume and momentum detectors fire and are scored, and a long  *)
(* quiet series on which every detector passes its length test.            *)

QuietBars == 64

CallFrames ==
    {OkFrame(PatternBars("surge", BatchBars)),
     OkFrame(PatternBars("surge", MinBurstBars)),
     OkFrame(BurstBars(QuietBars, BasePrice, BasePrice, BasePrice, BasePrice, BasePrice,
                       BaseVolume, BaseVolume, BaseVolume, 1))}

InitCalls ==
    /\ df \in CallFrames
    /\ DetectorsIdle
    /\ ScorerIdle
    /\ BatchIdle
    /\ call = "load"

\* strength = calculate_pattern_strength(df, result, scanner_name);
\* quality = get_signal_quality(strength), for a signal found
ScoreSignal(name) ==
    /\ name \in DOMAIN signals
    /\ signals[name] # None
    /\ \E r \in {ScoreCall(df, signals[name], name)} :
           /\ strength' = r.ret
           /\ exc_line' = r.exc_line
           /\ exc_score' = r.score
           /\ quality' = get_signal_quality(r.ret)
    /\ pattern_result' = signals[name]
    /\ pattern_name' = name
    /\ call' = "calculate_pattern_strength"
    /\ df' = FrameAfter("calculate_pattern_strength", df)
    /\ UNCHANGED <<detector_vars, batch_vars>>

NextCalls ==
    \/ /\ Cardinality(DOMAIN signals) < DetectRuns
       /\ \/ \E name \in PatternScanners : DetectPattern(name)
          \/ \E name \in VolumeScanners : DetectVolume(name)
          \/ \E name \in TrendScanners : DetectTrend(name)
    \/ \E name \in VolumeScanners \cup PatternScanners \cup TrendScanners : ScoreSignal(name)

SpecCalls == InitCalls /\ [][NextCalls]_vars

-----------------------------------------------------------------------------
(* Series with a zero where a detector divides: no volume before the       *)
(* latest bar, a latest bar that opens at 0, a close of 0 one, three or    *)
(* five bars before the latest, or closes of 0 at every pole start.  The   *)
(* other bars open and close at BasePrice on BaseVolume; the latest bar    *)
(* closes at c on volume v.                                                 *)

ZeroLens == {21, MinFlagBars}
ZeroPlaces == {"volume", "open", "close1", "close3", "close5", "pole", "nowhere"}
ZeroCloses == {0, 5, BasePrice + 10}
ZeroVolumes == {0, BaseVolume, SurgeVolume}
ZeroLookbacks == {5, DefaultLookback}

ZeroBar(n, place, c, v, i) ==
    [Open   |-> IF place = "open" /\ i = n THEN 0 ELSE BasePrice,
     High   |-> Max(c, BasePrice),
     Low    |-> 0,
     Close  |-> IF i = n THEN c
                ELSE IF place = "pole" /\ i <= n - 2 * PoleBars THEN 0
                ELSE IF place = "close1" /\ i = n - 1 THEN 0
                ELSE IF place = "close3" /\ i = n - 3 THEN 0
                ELSE IF place = "close5" /\ i = n - 5 THEN 0
                ELSE BasePrice,
     Volume |-> IF i = n THEN v ELSE IF place = "volume" THEN 0 ELSE BaseVolume]

ZeroBars(n, place, c, v) == [i \in 1..n |-> ZeroBar(n, place, c, v, i)]

InitZero ==
    /\ \E n \in ZeroLens, place \in ZeroPlaces, c \in ZeroCloses, v \in ZeroVolumes :
           df = OkFrame(ZeroBars(n, place, c, v))
    /\ lookback \in ZeroLookbacks
    /\ max_days_ago = DefaultMaxDaysAgo
    /\ signals = NoSignals
    /\ df_st = <<>>
    /\ ScorerIdle
    /\ BatchIdle
    /\ call = "load"

ZeroScanners ==
    VolumeScanners \cup BurstScanners \cup {"BULL_FLAG", "BEAR_FLAG"}

NextZero ==
    /\ Cardinality(DOMAIN signals) < DetectRuns
    /\ \/ \E name \in VolumeScanners : DetectVolume(name)
       \/ \E name \in BurstScanners \cup {"BULL_FLAG", "BEAR_FLAG"} : DetectPattern(name)

SpecZero == InitZero /\ [][NextZero]_vars

-----------------------------------------------------------------------------
(* Inputs at the boundaries of the scorer's factors: a flat series at      *)
(* FactorPrice whose bars span close -/+ w, so that ATR(14) is 2 * w, that *)
(* is w percent of the close; the last bar trades v, the 19 bars before it *)
(* BaseVolume, and a bar before those, when there is one, HeavyVolume.  On *)
(* 14 bars ATR(14) is nan.                                                  *)

FactorPrice == 200
FactorLens == {AtrPeriod, ScoreWindow, ScoreWindow + 1}
FactorVolumes == {40, 50, BaseVolume, 120, 125, 150, 2 * BaseVolume}
FactorHalfRanges == {0, 1, 2, 3, 4, 5, 6}

FactorBars(n, w, v) ==
    [i \in 1..n |->
        Bar(FactorPrice, FactorPrice + w, FactorPrice - w, FactorPrice,
            IF i = n THEN v ELSE IF i <= n - ScoreWindow THEN HeavyVolume ELSE BaseVolume)]

InitFactor ==
    /\ \E n \in FactorLens, w \in FactorHalfRanges, v \in FactorVolumes :
           df = OkFrame(FactorBars(n, w, v))
    /\ ScorerIdle
    /\ BatchIdle
    /\ DetectorsIdle
    /\ call = "load"

NextFactor == \E result \in Signals, name \in PatternNames : Score(result, name)

SpecFactor == InitFactor /\ [][NextFactor]_vars

-----------------------------------------------------------------------------
(* Cups: CupBars closes at CupLevel with a left rim of CupLeft at LeftRim, *)
(* a bottom at CupBottom, a right rim at position r, the closes after the  *)
(* right rim at handle and the latest close at c.                          *)

CupBars == 60
CupLevel == 92
CupLeft == 100
LeftRim == 10
CupBottom == 25
CupBottoms == {66, 67, 80, 88, 89}
RightRims == {40, 56}
RightPrices == {94, 95, 100, 105, 106}
HandleDrops == {1, 6, 7, 10, 11}
LatestOffsets == {0 - 4, 0 - 3, 0 - 1, 20}

CupClose(i, bottom, r, right, handle, c) ==
    IF i = CupBars - 1 THEN c
    ELSE IF i > r THEN handle
    ELSE IF i = r THEN right
    ELSE IF i = CupBottom THEN bottom
    ELSE IF i = LeftRim THEN CupLeft
    ELSE CupLevel

CupSeries(bottom, r, right, handle, c) ==
    [k \in 1..CupBars |->
        Bar(CupClose(k - 1, bottom, r, right, handle, c),
            CupClose(k - 1, bottom, r, right, handle, c) + 1,
            CupClose(k - 1, bottom, r, right, handle, c) - 1,
            CupClose(k - 1, bottom, r, right, handle, c), BaseVolume)]

InitCup ==
    /\ \E bottom \in CupBottoms, r \in RightRims, right \in RightPrices,
          drop \in HandleDrops, off \in LatestOffsets :
            df = OkFrame(CupSeries(bottom, r, right, right - drop, right + off))
    /\ DetectorsIdle
    /\ ScorerIdle
    /\ BatchIdle
    /\ call = "load"

NextCup == DetectPattern("CUP_AND_HANDLE")

SpecCup == InitCup /\ [][NextCup]_vars

-----------------------------------------------------------------------------
(* Flags: ten closes at BasePrice, then closes that alternate between the  *)
(* level reached by a move of g (up for the bull flag, down for the bear   *)
(* flag) and that level pulled back by d, and a latest close at offset c   *)
(* from the flag boundary (the flag low, or the flag high).                *)

FlagLens == {MinFlagBars, 40}
FlagMoves == {9, 10, 20}
FlagPullbacks == {0, 5, 8, 11, 12}
FlagOffsets == {0 - 3, 0 - 1, 0, 10, 40}

\* the close at position i of n, for direction up (1) or down (-1)
FlagClose(n, up, g, d, c, i) ==
    IF i = n - 1 THEN BasePrice + up * (g - d + c)
    ELSE IF i < PoleBars THEN BasePrice
    ELSE IF i % 2 = 0 THEN BasePrice + up * g
    ELSE BasePrice + up * (g - d)

FlagSeries(n, up, g, d, c) ==
    [k \in 1..n |->
        Bar(FlagClose(n, up, g, d, c, k - 1), FlagClose(n, up, g, d, c, k - 1) + 1,
            FlagClose(n, up, g, d, c, k - 1) - 1, FlagClose(n, up, g, d, c, k - 1),
            BaseVolume)]

InitFlag ==
    /\ \E n \in FlagLens, up \in {1, 0 - 1}, g \in FlagMoves, d \in FlagPullbacks,
          c \in FlagOffsets :
            df = OkFrame(FlagSeries(n, up, g, d, c))
    /\ DetectorsIdle
    /\ ScorerIdle
    /\ BatchIdle
    /\ call = "load"

NextFlag == \E name \in {"BULL_FLAG", "BEAR_FLAG"} : DetectPattern(name)

SpecFlag == InitFlag /\ [][NextFlag]_vars

-----------------------------------------------------------------------------
(* Inputs of the scorer that take the adjustments downwards: the first     *)
(* FloorLead bars close at a, the later ones at b and the latest at        *)
(* b + off, on thin or usual volume; every bar spans its close -/+ w.      *)

FloorLeads == {5}
FloorLens == {AtrPeriod + 1, ScoreWindow}
FloorLevels == { <<60, 140>>, <<50, 140>>, <<140, 60>>, <<BasePrice, BasePrice>> }
FloorOffsets == {0 - 35, 0 - 30, 0, 30}
FloorVolumes == {40, BaseVolume}
FloorHalfRanges == {0, MaxHalfRange}

FloorClose(n, lead, level, off, i) ==
    IF i = n THEN level[2] + off
    ELSE IF i <= lead THEN level[1]
    ELSE level[2]

FloorBars(n, lead, level, off, w, v) ==
    [i \in 1..n |->
        LET c == FloorClose(n, lead, level, off, i)
        IN  Bar(c, c + w, c - w, c, IF i = n THEN v ELSE BaseVolume)]

InitFloor ==
    /\ \E n \in FloorLens, lead \in FloorLeads, level \in FloorLevels,
          off \in FloorOffsets, w \in FloorHalfRanges, v \in FloorVolumes :
            df = OkFrame(FloorBars(n, lead, level, off, w, v))
    /\ ScorerIdle
    /\ BatchIdle
    /\ DetectorsIdle
    /\ call = "load"

NextFloor == \E result \in Signals, name \in PatternNames : Score(result, name)

SpecFloor == InitFloor /\ [][NextFloor]_vars

-----------------------------------------------------------------------------
(* Saving the results: run_scanners_and_save run again and again on one    *)
(* database.  The clock now counts the runs; RunsPerDay of them start on   *)
(* the same date.  A row of the table is a result with its scan_date.      *)

RunsPerDay == 2
LastRun == 2

\* datetime.now().date()
date(t) == t \div RunsPerDay

today == date(now)

\* pd.DataFrame(results): every result carries 'scan_date': today
ResultRows(res, day) ==
    { [symbol |-> res[i].symbol, scanner_name |-> res[i].scanner_name,
       signal |-> res[i].signal, strength |-> res[i].strength,
       quality |-> res[i].quality, scan_date |-> day] : i \in DOMAIN res }

\* PRIMARY KEY (symbol, scanner_name, scan_date)
PrimaryKey(row) == <<row.symbol, row.scanner_name, row.scan_date>>

\* DELETE FROM scanner_data.scanner_results WHERE scan_date = ?
DeleteToday(table, day) == {row \in table : row.scan_date # day}

\* INSERT INTO scanner_data.scanner_results SELECT * FROM df_results: the
\* statement raises and inserts nothing when two rows would share a key
InsertRows(table, res, day) ==
    LET rows == ResultRows(res, day)
        keys == {PrimaryKey(row) : row \in table \cup rows}
    IN  IF Cardinality(keys) # Cardinality(table) + Len(res)
        THEN [table |-> table, raised |-> TRUE]
        ELSE [table |-> table \cup rows, raised |-> FALSE]

\* if results: delete today's rows, insert the new ones
SaveResults(table, res, day) ==
    IF res # <<>> THEN InsertRows(DeleteToday(table, day), res, day)
    ELSE [table |-> table, raised |-> FALSE]

LoopOver == symbol_idx = Len(Symbols) + 1

\* the lines after the symbol loop, to conn.close() and "Done!"
Save ==
    /\ program = "save_scanner_results_to_db"
    /\ LoopOver
    /\ \E r \in {SaveResults(scanner_results, results, today)} :
           /\ scanner_results' = r.table
           /\ program' = IF r.raised THEN "raised" ELSE "none"
    /\ UNCHANGED <<df, scorer_vars, detector_vars, call, symbol_idx, scanner_idx, results,
                   log, loaded, evaluated, faults, now>>

\* the next start of the script, on the same database
RunAgain ==
    /\ program = "none"
    /\ LoopOver
    /\ now < LastRun
    /\ now' = now + 1
    /\ program' = "save_scanner_results_to_db"
    /\ symbol_idx' = 1
    /\ scanner_idx' = 0
    /\ results' = <<>>
    /\ log' = <<>>
    /\ loaded' = {}
    /\ evaluated' = {}
    /\ df' = NoneFrame
    /\ signals' = NoSignals
    /\ df_st' = <<>>
    /\ call' = "load"
    /\ UNCHANGED <<scorer_vars, lookback, max_days_ago, faults, scanner_results>>

InitSave == InitBatch /\ program = "save_scanner_results_to_db"

\* the runs of SpecSave meet no unexpected exception (those are in SpecBatch)
RunScannerQuietly == RunScanner /\ UNCHANGED faults

NextSave ==
    \/ SkipSymbol
    \/ \E frame \in BatchFrames(program) : LoadFrame(frame)
    \/ RunScannerQuietly
    \/ Save
    \/ RunAgain

SpecSave == InitSave /\ [][NextSave]_vars

-----------------------------------------------------------------------------
(* Properties of the trend state.  They read the columns df_st of the last *)
(* trend detector that ran on df.                                          *)

Computed == df_st # <<>>

direction(i) == iloc(df_st, i).supertrend_direction

line(i) == iloc(df_st, i).supertrend

\* the positions after the seed
AfterSeed == (Period + 1)..(Len(df_st) - 1)

\* the basic bands of df
BasicLower == lower_band(hl_avg(df.bars, Period), calculate_atr(df.bars, Period), Multiplier)

BasicUpper == upper_band(hl_avg(df.bars, Period), calculate_atr(df.bars, Period), Multiplier)

\* C7: while the direction is bullish the line never decreases (direction +1
\* at i-1 and at i implies line[i] >= line[i-1]), while it is bearish the
\* line never increases; the line moves the other way only at a flip bar.
C7_Ratchet ==
    \A i \in AfterSeed :
        /\ (direction(i - 1) = 1 /\ direction(i) = 1) => line(i) >= line(i - 1)
        /\ (direction(i - 1) = 0 - 1 /\ direction(i) = 0 - 1) => line(i) <= line(i - 1)
        /\ (direction(i - 1) = 1 /\ line(i) < line(i - 1)) => direction(i) = 0 - 1
        /\ (direction(i - 1) = 0 - 1 /\ line(i) > line(i - 1)) => direction(i) = 1

\* C7 witness: a bullish bar whose basic lower band is below the line of the
\* bar before, and a bearish bar whose basic upper band is above it; the
\* line is held in both
C7_Witness ==
    /\ Computed
    /\ \E i \in AfterSeed :
           /\ direction(i - 1) = 1 /\ direction(i) = 1
           /\ iloc(BasicLower, i) < line(i - 1)
           /\ line(i) = line(i - 1)
    /\ \E i \in AfterSeed :
           /\ direction(i - 1) = 0 - 1 /\ direction(i) = 0 - 1
           /\ iloc(BasicUpper, i) > line(i - 1)
           /\ line(i) = line(i - 1)

\* a bullish flip at position i: direction +1 at i and -1 at i - 1
BullishFlip(i) == i >= 1 /\ direction(i) = 1 /\ direction(i - 1) = 0 - 1

\* the last days + 1 positions
LastBars(days) == { i \in 0..(Len(df_st) - 1) : i >= Len(df_st) - (days + 1) }

FlipRule(days) ==
    IF (\E i \in LastBars(days) : BullishFlip(i)) /\ direction(Len(df_st) - 1) = 1
    THEN bullish
    ELSE None

DaysOf(name) ==
    CASE name = "SUPERTREND_BULLISH" -> max_days_ago
      [] name = "SUPERTREND_FRESH" -> 1
      [] name = "SUPERTREND_RECENT" -> 2

\* C8: on at least 50 bars detect_supertrend_bullish(max_days_ago) returns
\* bullish if and only if one of the last max_days_ago + 1 bars is a bullish
\* flip (direction +1 there, -1 at the bar before) and the direction at the
\* latest bar is +1, and none otherwise; fresh and recent are the rule with
\* 1 and 2 days.
C8_FlipRule ==
    Computed => \A name \in DOMAIN signals : signals[name] = FlipRule(DaysOf(name))

\* C9: whenever a trend detector returns bullish, the close of the latest
\* bar is above the line of the latest bar.
C9_CloseAboveLine ==
    \A name \in DOMAIN signals :
        signals[name] = bullish =>
            band_scale(Period) * df.bars[Len(df.bars)].Close > df_st[Len(df_st)].supertrend

\* a bearish flip at position i: direction -1 at i and +1 at i - 1
BearishFlip(i) == i >= 1 /\ direction(i) = 0 - 1 /\ direction(i - 1) = 1

BullishFlips == { i \in AfterSeed : BullishFlip(i) }

Latest == Len(df_st) - 1

\* detect_supertrend_fresh returns bullish only within one bar of a bullish
\* flip, and none on any later bar
FreshOnlyAtFlip ==
    "SUPERTREND_FRESH" \in DOMAIN signals =>
        (signals["SUPERTREND_FRESH"] = bullish
             <=> (BullishFlip(Latest) \/ BullishFlip(Latest - 1)))

\* C10 as stated: on a 60-bar series whose prices rise monotonically the
\* trend state flips from bearish to bullish exactly once and never flips
\* back, and detect_supertrend_fresh returns bullish only when the latest bar
\* is the flip bar or the bar right after it.
C10_RisingFlipsOnce ==
    (Computed /\ RisingCloses(df.bars)) =>
        /\ Len(df.bars) = RampBars => Cardinality(BullishFlips) = 1
        /\ \A i \in AfterSeed : ~BearishFlip(i)
        /\ FreshOnlyAtFlip

\* C10 amended: on a series that rises by a constant step with bars of one
\* shape, the trend state is bearish at the seed bar, flips to bullish at
\* most once - on the 60-bar series exactly once when the close reaches the
\* line of the seed bar, not at all otherwise - and never flips back;
\* detect_supertrend_fresh returns bullish only when the latest bar is the
\* flip bar or the bar right after it.
C10_ConstantRampFlipsOnce ==
    (Computed /\ ConstantRamp(df.bars)) =>
        /\ direction(Period) = 0 - 1
        /\ Cardinality(BullishFlips) <= 1
        /\ Len(df.bars) = RampBars =>
               (Cardinality(BullishFlips) = 1
                    <=> band_scale(Period) * df.bars[RampBars].Close >= line(Period))
        /\ \A i \in AfterSeed : ~BearishFlip(i)
        /\ FreshOnlyAtFlip

\* C10 witness: on a constant ramp the state flipped once, late enough for
\* detect_supertrend_fresh to have run two bars after the flip, where it
\* returned none
C10_Witness ==
    /\ Computed /\ ConstantRamp(df.bars)
    /\ Cardinality(BullishFlips) = 1
    /\ BullishFlip(Latest - 2)
    /\ Returned("SUPERTREND_FRESH", None)

-----------------------------------------------------------------------------
(* Properties of the guards *)

\* the minimum length of each detector
MinBars(name) ==
    CASE name = "CUP_AND_HANDLE" -> 60
      [] name \in {"ASCENDING_TRIANGLE", "DOUBLE_BOTTOM"} -> 40
      [] name \in {"BULL_FLAG", "BEAR_FLAG"} -> 30
      [] name \in {"MOMENTUM_BURST_1D", "MOMENTUM_BURST_3D", "MOMENTUM_BURST_5D"} -> 20
      [] name \in TrendScanners -> 50
      [] name = "QULLAMAGGIE_BREAKOUT" -> lookback + 20
      [] name \in VolumeScanners -> lookback + 1

\* C5: every detector returns none and raises nothing on a series shorter
\* than its minimum length (cup-and-handle 60, ascending triangle and double
\* bottom 40, flags 30, momentum burst 20, trend detectors 50, breakout
\* lookback + 20, explosive volume and volume surge lookback + 1), the empty
\* series included.
C5_ShortSeriesNone ==
    \A name \in DOMAIN signals :
        (~IsNone(df) /\ Len(df.bars) < MinBars(name)) => signals[name] = None

\* C5 witness: detect_cup_and_handle returned none on 59 bars in which the
\* search of the try block finds a cup and handle
C5_Witness ==
    /\ Returned("CUP_AND_HANDLE", None)
    /\ Len(df.bars) = MinCupBars - 1
    /\ CupOf(Column(df.bars, "Close")) = bullish

-----------------------------------------------------------------------------
(* Properties of the momentum burst detectors *)

LatestClose == df.bars[Len(df.bars)].Close

\* 20 times the 20-bar simple moving average of the close at the latest bar
Sma20Sum == Sum(tail(Column(df.bars, "Close"), 20))

\* C11: no momentum burst detector (1d, 3d, 5d) returns bullish when the
\* latest close is below the 20-bar simple moving average of the close,
\* whatever the percentage change and the volume are.
C11_BelowSmaNeverFires ==
    \A name \in BurstScanners \cap DOMAIN signals :
        (Len(df.bars) >= 20 /\ 20 * LatestClose < Sma20Sum) => signals[name] = None

\* C11 witness: the 1d detector returned none below the average on a bar
\* that closed 8% up on four times the base volume
C11_Witness ==
    /\ Returned("MOMENTUM_BURST_1D", None)
    /\ 20 * LatestClose < Sma20Sum
    /\ BurstTests(Column(df.bars, "Close"), Column(df.bars, "Volume"), "1d")
    /\ Sum(Column(df.bars, "Volume")) > 0

-----------------------------------------------------------------------------
(* Properties of the breakout detector *)

\* the lookback bars before the latest bar
BarsBeforeToday == SubSeq(df.bars, Len(df.bars) - lookback, Len(df.bars) - 1)

\* n times the n-bar simple moving average of the close at the latest bar
SmaSum(n) == Sum(tail(Column(df.bars, "Close"), n))

\* the five conditions at the latest bar, with multiplier 1.5
FiveHold ==
    /\ lookback > 0
    /\ LatestClose > np_max(Column(BarsBeforeToday, "High"))
    /\ 2 * lookback * df.bars[Len(df.bars)].Volume > 3 * Sum(Column(BarsBeforeToday, "Volume"))
    /\ 10 * LatestClose > SmaSum(10)
    /\ 20 * LatestClose > SmaSum(20)
    /\ 20 * SmaSum(10) > 10 * SmaSum(20)

BreakoutIff ==
    Len(df.bars) >= lookback + 20 =>
        (Returned("QULLAMAGGIE_BREAKOUT", bullish) <=> FiveHold)

\* C12: for a series of at least lookback + 20 bars,
\* detect_qullamaggie_breakout returns bullish if and only if at the latest
\* bar close > highest High of the lookback bars before it, volume > 1.5 x
\* the mean volume of those bars, close > SMA10, close > SMA20 and
\* SMA10 > SMA20.
C12_BreakoutIff ==
    "QULLAMAGGIE_BREAKOUT" \in DOMAIN signals => BreakoutIff

\* the same with the lookback no longer than the 49 bars before the latest
\* bar that tail(50) keeps
C12_BreakoutIffWithinWindow ==
    ("QULLAMAGGIE_BREAKOUT" \in DOMAIN signals /\ lookback < BreakoutWindow) => BreakoutIff

-----------------------------------------------------------------------------
(* Properties on flat series *)

Constant(col) == \A i \in 1..Len(df.bars) : df.bars[i][col] = df.bars[1][col]

\* C13 as stated: on a 60-bar series whose close is constant, every shape
\* detector and every momentum burst detector returns none.
C13_ConstantCloseNone ==
    (Len(df.bars) = 60 /\ Constant("Close")) =>
        \A name \in (ShapeScanners \cup BurstScanners) \cap DOMAIN signals :
            signals[name] = None

\* C13 amended: on a 60-bar series whose close is constant, cup-and-handle,
\* bull flag, bear flag and the momentum burst detectors return none; the
\* ascending triangle and the double bottom, which read High and Low and not
\* Close, return none when the low is constant as well.
C13_FlatSeriesNone ==
    (Len(df.bars) = 60 /\ Constant("Close")) =>
        \A name \in (ShapeScanners \cup BurstScanners) \cap DOMAIN signals :
            (name \in {"ASCENDING_TRIANGLE", "DOUBLE_BOTTOM"} => Constant("Low"))
                => signals[name] = None

\* C13 witness: all eight detectors have returned none on 60 bars of
\* constant close and low, with peaks in the high and a volume surge
C13_Witness ==
    /\ Len(df.bars) = 60 /\ Constant("Close") /\ Constant("Low")
    /\ ~Constant("High") /\ ~Constant("Volume")
    /\ DOMAIN signals = ShapeScanners \cup BurstScanners
    /\ \A name \in DOMAIN signals : signals[name] = None

-----------------------------------------------------------------------------
(* Properties of the batch scans *)

\* the loop over the symbols has ended
Done == symbol_idx = Len(Symbols) + 1

\* every scanner has been called on every symbol whose frame was loaded
Complete ==
    \A sym \in loaded : \A name \in Range(Scanners(program)) : <<sym, name>> \in evaluated

\* the scan is about to call a scanner on the loaded symbol
AtScanner ==
    symbol_idx \in 1..Len(Symbols) /\ scanner_idx \in 1..Len(Scanners(program))

\* a step leaves the results collected so far in place
Kept == SubSeq(results', 1, Len(results)) = results

\* a step moves to the next scanner of the symbol, or from the load or the
\* last scanner of a symbol to the next symbol
Steps ==
    \/ symbol_idx' = symbol_idx /\ scanner_idx' = scanner_idx + 1
    \/ /\ symbol_idx' = symbol_idx + 1
       /\ scanner_idx' = 0
       /\ scanner_idx \in {0, Len(Scanners(program))}

\* C14: in a batch scan an exception raised while loading or scanning one
\* symbol, or inside one detector or the scorer for one (symbol, detector)
\* pair, does not stop the scan: until the last symbol is done the scan is at
\* a symbol to load or at a scanner to call, every step goes on with the next scanner or the next symbol
\* and drops no result collected before, and at the end every scanner has
\* been called on every loaded symbol.
C14_ScanContinues ==
    /\ [](Done => Complete)
    /\ [](~Done => AtSymbol \/ AtScanner)
    /\ [][Kept /\ Steps]_vars

\* C14 witness: the scan has ended after an exception in a scanner of the
\* first symbol and one in the load of the second, with results of the first
\* and of the third symbol
C14_Witness ==
    /\ Done
    /\ \E i \in DOMAIN log : log[i].symbol = Symbols[1] /\ log[i].scanner # "load"
    /\ \E i \in DOMAIN log : log[i].symbol = Symbols[2] /\ log[i].scanner = "load"
    /\ \E i \in DOMAIN results : results[i].symbol = Symbols[1]
    /\ \E i \in DOMAIN results : results[i].symbol = Symbols[3]

-----------------------------------------------------------------------------
(* Properties of the calls on one frame *)

\* what the detector returns when it is the only call on the frame
Alone(name) == scanner_func(name, df, <<>>).ret

-----------------------------------------------------------------------------
(* Properties of the transitions of the trend state *)

ScaledClose(i) == band_scale(Period) * iloc(df.bars, i).Close

\* max(basic lower band of bar i, line of bar i - 1)
ActiveLower(lower, i) == Max(iloc(lower, i), line(i - 1))

\* min(basic upper band of bar i, line of bar i - 1)
ActiveUpper(upper, i) == Min(iloc(upper, i), line(i - 1))

\* the transition at bar i between the basic bands lower and upper: with
\* inclusive, a close on the active band flips the direction as well
Transition(lower, upper, i, inclusive) ==
    /\ direction(i - 1) = 1 =>
           /\ direction(i) = 0 - 1 <=>
                  \/ ScaledClose(i) < ActiveLower(lower, i)
                  \/ inclusive /\ ScaledClose(i) = ActiveLower(lower, i)
           /\ direction(i) = 0 - 1 => line(i) = iloc(upper, i)
           /\ direction(i) = 1 => line(i) = ActiveLower(lower, i)
    /\ direction(i - 1) = 0 - 1 =>
           /\ direction(i) = 1 <=>
                  \/ ScaledClose(i) > ActiveUpper(upper, i)
                  \/ inclusive /\ ScaledClose(i) = ActiveUpper(upper, i)
           /\ direction(i) = 1 => line(i) = iloc(lower, i)
           /\ direction(i) = 0 - 1 => line(i) = ActiveUpper(upper, i)

TransitionRule(inclusive) ==
    Computed =>
        \E lower \in {BasicLower}, upper \in {BasicUpper} :
            \A i \in AfterSeed : Transition(lower, upper, i, inclusive)

\* C16: while bullish the active lower band is max(basic lower band of bar
\* i, line of bar i-1), the direction flips to bearish at bar i exactly when
\* the close of bar i falls below it, and the line of the flip bar is the
\* basic upper band of bar i; while bearish the active upper band is
\* min(basic upper band, previous line), the flip to bullish happens exactly
\* when the close rises above it, and the line is reset to the basic lower
\* band.
C16_TransitionRule == TransitionRule(FALSE)

\* the rule with a close on the active band flipping the direction as well
TransitionRuleOnBand == TransitionRule(TRUE)

\* a bar that closes on the active band of a bearish state
ClosesOnUpper ==
    /\ Computed
    /\ \E upper \in {BasicUpper} :
           \E i \in AfterSeed : direction(i - 1) = 0 - 1 /\ ScaledClose(i) = ActiveUpper(upper, i)

\* a bar that closes on the active band of a bullish state
ClosesOnLower ==
    /\ Computed
    /\ \E lower \in {BasicLower} :
           \E i \in AfterSeed : direction(i - 1) = 1 /\ ScaledClose(i) = ActiveLower(lower, i)

-----------------------------------------------------------------------------
(* Properties of the seed of the trend state *)

\* the window of period values of column ending at position i is full
WindowFull(column, i) ==
    Cardinality({k \in (i - Period + 1)..i : k + 1 \in DOMAIN column}) = Period

\* the first position whose window of true ranges is full: tr has a value
\* at every position, position 0 included
FirstFull ==
    CHOOSE i \in 0..(Len(df.bars) - 1) :
        \E column \in {tr(df.bars)} :
            WindowFull(column, i) /\ \A j \in 0..(i - 1) : ~WindowFull(column, j)

\* the state is seeded at position s: bearish on the basic upper band when
\* the close is not above that band, bullish on the basic lower band
\* otherwise, and no direction and no line at any position before
SeededAt(s) ==
    \E lower \in {BasicLower}, upper \in {BasicUpper} :
        /\ ScaledClose(s) <= iloc(upper, s) => direction(s) = 0 - 1 /\ line(s) = iloc(upper, s)
        /\ ScaledClose(s) > iloc(upper, s) => direction(s) = 1 /\ line(s) = iloc(lower, s)
        /\ \A j \in 0..(s - 1) : iloc(df_st, j) = WarmupRow

\* C17: the trend state is seeded at the first bar whose window of period
\* true ranges is full: there the direction is bearish with the line on the
\* basic upper band when close <= basic upper band, bullish with the line on
\* the basic lower band otherwise, and no bar before it has a direction or a
\* line.
C17_SeedAtFullWindow == Computed => \E s \in {FirstFull} : SeededAt(s)

\* the seed rule at position period, one bar after the first full window
SeedAtPeriod == Computed => FirstFull = Period - 1 /\ SeededAt(Period)

\* a series seeded bullish at position period
SeededBullish == Computed /\ direction(Period) = 1 /\ direction(Period - 1) = 0

-----------------------------------------------------------------------------
(* Properties of the chain of trend states *)

\* the state at bar i
State(i) == <<line(i), direction(i)>>

\* the first bar with a direction
SeedBar == CHOOSE i \in 0..Latest : direction(i) # 0 /\ \A j \in 0..(i - 1) : direction(j) = 0

\* the state at bar i - 1 with the close and the basic bands of bar i
Inputs(lower, upper, i) == <<State(i - 1), ScaledClose(i), iloc(lower, i), iloc(upper, i)>>

\* C18: from the seed bar to the last bar every bar has direction +1 or -1,
\* and the state (line, direction) at bar i is a function of the state at
\* bar i-1 and of the close and basic bands of bar i only: two bars with the
\* same state before them, the same close and the same basic bands have the
\* same state.
C18_TwoStatesFirstOrder ==
    Computed =>
        \E lower \in {BasicLower}, upper \in {BasicUpper}, seed \in {SeedBar} :
            /\ \A i \in seed..Latest : direction(i) \in {1, 0 - 1}
            /\ \A i, j \in (seed + 1)..Latest :
                   Inputs(lower, upper, i) = Inputs(lower, upper, j) => State(i) = State(j)

\* C18 witness: the direction has flipped both ways, and two bars with the
\* same inputs have followed different bars two positions before them
C18_Witness ==
    /\ Computed
    /\ \E i, j \in AfterSeed : BullishFlip(i) /\ BearishFlip(j)
    /\ \E lower \in {BasicLower}, upper \in {BasicUpper} :
           \E i, j \in (Period + 2)..Latest :
               /\ Inputs(lower, upper, i) = Inputs(lower, upper, j)
               /\ State(i - 2) # State(j - 2)

-----------------------------------------------------------------------------
(* Properties of the momentum burst conditions *)

\* the close n bars before the latest bar
CloseBefore(n) == df.bars[Len(df.bars) - n].Close

\* the close is up at least pct percent over n bars
UpOver(n, pct) == (LatestClose - CloseBefore(n)) * 100 >= pct * CloseBefore(n)

\* the sum of the volume of the last n bars
VolumeSum(n) == Sum(tail(Column(df.bars, "Volume"), n))

\* the pair of conditions of each variant; the means are compared after
\* multiplying by the window lengths
OwnPair(name) ==
    CASE name = "MOMENTUM_BURST_1D" -> UpOver(1, 4) /\ 20 * VolumeSum(1) >= 2 * VolumeSum(20)
      [] name = "MOMENTUM_BURST_3D" -> UpOver(3, 6) /\ 2 * 20 * VolumeSum(3) >= 3 * 3 * VolumeSum(20)
      [] name = "MOMENTUM_BURST_5D" -> UpOver(5, 8) /\ 10 * 20 * VolumeSum(5) >= 13 * 5 * VolumeSum(20)

\* a variant returns bullish exactly when the close is above the average
\* (or on it, with onAverage) and its own pair holds
BurstIff(onAverage) ==
    \A name \in BurstScanners \cap DOMAIN signals :
        (~IsNone(df) /\ Len(df.bars) >= 20) =>
            (signals[name] = bullish <=>
                 /\ \/ 20 * LatestClose > Sma20Sum
                    \/ onAverage /\ 20 * LatestClose = Sma20Sum
                 /\ OwnPair(name))

\* C19: each momentum burst variant returns bullish if and only if the
\* latest close is strictly above SMA(20) and its own pair of conditions
\* holds (1d: up >= 4% over 1 bar, latest volume >= 2 x the 20-bar average
\* volume; 3d: up >= 6% over 3 bars, mean volume of the last 3 bars >= 1.5 x
\* that average; 5d: up >= 8% over 5 bars, mean volume of the last 5 bars >=
\* 1.3 x that average); no variant fires on the conditions of another.
C19_BurstIff == BurstIff(FALSE)

\* the equivalence with a close on the average passing as well, on series
\* that have volume
BurstIffOnAverage == VolumeSum(20) > 0 => BurstIff(TRUE)

\* a variant fired with the close on the average
FiredOnAverage ==
    /\ Returned("MOMENTUM_BURST_1D", bullish)
    /\ Len(df.bars) = 20
    /\ 20 * LatestClose = Sma20Sum

\* each variant fired where the pair of another did not hold
FiredAlone(name, other) ==
    /\ Returned(name, bullish)
    /\ ~OwnPair(other)

-----------------------------------------------------------------------------
(* Properties of the explosive volume ratio *)

ExplosiveScanners == {"EXPLOSIVE_VOLUME_3X", "EXPLOSIVE_VOLUME_5X", "EXPLOSIVE_VOLUME_10X"}

ThresholdOf(name) ==
    CASE name = "EXPLOSIVE_VOLUME_3X" -> 3
      [] name = "EXPLOSIVE_VOLUME_5X" -> 5
      [] name = "EXPLOSIVE_VOLUME_10X" -> 10

LatestVolume == df.bars[Len(df.bars)].Volume

\* lookback times the mean volume of the lookback bars before the latest
PrecedingSum == Sum(Column(SubSeq(df.bars, Len(df.bars) - lookback, Len(df.bars) - 1), "Volume"))

\* the mean of the lookback bars before the latest is a number: there is a
\* Volume column and at least one bar to average
MeanDefined == "Volume" \in df.columns /\ lookback >= 1

\* C20: with at least lookback + 1 bars an explosive volume detector returns
\* bullish if and only if the volume of the latest bar divided by the mean
\* volume of the lookback bars before it is >= its threshold (3, 5 or 10),
\* and none when that mean is zero or undefined.
C20_VolumeRatioIff ==
    \A name \in ExplosiveScanners \cap DOMAIN signals :
        (~IsNone(df) /\ Len(df.bars) >= lookback + 1) =>
            /\ signals[name] \in {bullish, None}
            /\ signals[name] = bullish <=>
                   /\ MeanDefined
                   /\ PrecedingSum > 0
                   /\ LatestVolume * lookback >= ThresholdOf(name) * PrecedingSum

\* C20 witness: the ratio is exactly 3 with heavier bars before the window,
\* the 3x detector returned bullish and the 5x detector none
C20_Witness ==
    /\ Returned("EXPLOSIVE_VOLUME_3X", bullish)
    /\ Returned("EXPLOSIVE_VOLUME_5X", None)
    /\ Len(df.bars) > lookback + 1
    /\ MeanDefined
    /\ LatestVolume * lookback = 3 * PrecedingSum

-----------------------------------------------------------------------------
(* Properties of the volume surge with price *)

LatestOpen == df.bars[Len(df.bars)].Open

\* the volume ratio is >= 3 and the open-to-close change of the latest bar
\* is at least DefaultMinPriceChange percent either way
SurgeWithPrice ==
    /\ MeanDefined
    /\ {"Open", "Close"} \subseteq df.columns
    /\ PrecedingSum > 0
    /\ LatestVolume * lookback >= 3 * PrecedingSum
    /\ Abs(LatestClose - LatestOpen) * 100 >= DefaultMinPriceChange * LatestOpen

\* C21: detect_volume_surge_with_price returns a signal if and only if the
\* volume ratio (latest volume / mean volume of the lookback bars before it)
\* is >= 3 and the absolute open-to-close percentage change of the latest
\* bar is >= min_price_change (2%); the signal is bullish when the change is
\* positive, bearish when it is negative, and none otherwise.  The open of
\* the latest bar is positive, so that the percentage change is a number.
C21_SurgeWithPriceIff ==
    ("VOLUME_SURGE_WITH_PRICE" \in DOMAIN signals /\ ~IsNone(df)
         /\ Len(df.bars) >= lookback + 1 /\ LatestOpen > 0) =>
        /\ Returned("VOLUME_SURGE_WITH_PRICE", bullish) <=> (SurgeWithPrice /\ LatestClose > LatestOpen)
        /\ Returned("VOLUME_SURGE_WITH_PRICE", bearish) <=> (SurgeWithPrice /\ LatestClose < LatestOpen)
        /\ Returned("VOLUME_SURGE_WITH_PRICE", None) <=> ~SurgeWithPrice

\* C21 witness: bearish on a bar that closed exactly 2% below its open on
\* exactly three times the mean volume
C21_Witness ==
    /\ Returned("VOLUME_SURGE_WITH_PRICE", bearish)
    /\ LatestVolume * lookback = 3 * PrecedingSum
    /\ (LatestOpen - LatestClose) * 100 = DefaultMinPriceChange * LatestOpen

-----------------------------------------------------------------------------
(* Properties of the zero denominators *)

\* the mean volume of the lookback bars before the latest is zero
ZeroMeanVolume == lookback >= 1 /\ Len(df.bars) >= lookback + 1 /\ PrecedingSum = 0

\* every pole of the last 50 bars starts at a close of 0
ZeroPoleStarts ==
    /\ Len(df.bars) >= MinFlagBars
    /\ \E close \in {Column(tail(df.bars, FlagWindow), "Close")} :
           \A i \in PolePositions(close) : iloc(close, i - PoleBars) = 0

\* the denominator of a ratio of the detector is zero: the average volume or
\* the reference price
ZeroDenominator(name, withOpen) ==
    CASE name \in ExplosiveScanners -> ZeroMeanVolume
      [] name = "VOLUME_SURGE_WITH_PRICE" ->
             \/ ZeroMeanVolume
             \/ withOpen /\ Len(df.bars) >= lookback + 1 /\ LatestOpen = 0
      [] name = "MOMENTUM_BURST_1D" -> Len(df.bars) >= 20 /\ (VolumeSum(20) = 0 \/ CloseBefore(1) = 0)
      [] name = "MOMENTUM_BURST_3D" -> Len(df.bars) >= 20 /\ (VolumeSum(20) = 0 \/ CloseBefore(3) = 0)
      [] name = "MOMENTUM_BURST_5D" -> Len(df.bars) >= 20 /\ (VolumeSum(20) = 0 \/ CloseBefore(5) = 0)
      [] name \in {"BULL_FLAG", "BEAR_FLAG"} -> ZeroPoleStarts
      [] OTHER -> FALSE

ZeroDenominatorNone(withOpen) ==
    \A name \in DOMAIN signals : ZeroDenominator(name, withOpen) => signals[name] = None

\* C22: when the denominator of a detector's ratio is zero - the average
\* volume, or the reference price (the open of the latest bar in volume
\* surge with price, the earlier close in momentum burst and in the flag
\* pole) - the detector returns none: it neither raises nor returns bullish
\* or bearish.
C22_ZeroDenominatorNone == ZeroDenominatorNone(TRUE)

\* the same for every denominator but the open of the latest bar
ZeroDenominatorNoneButOpen == ZeroDenominatorNone(FALSE)

-----------------------------------------------------------------------------
(* Properties of the scorer's factors.  The local score at the end of the   *)
(* try block is the base score plus the five adjustments.                  *)

\* the heuristic ran to the end on the last 20 bars of df
Heuristic == Scored /\ pattern_result # None /\ exc_line = 0 /\ Len(df.bars) >= ScoreWindow

Recent == tail(df.bars, ScoreWindow)

\* 19 times the mean volume of the 19 bars before the latest
Sum19 == Sum(Column(SubSeq(df.bars, Len(df.bars) - 19, Len(df.bars) - 1), "Volume"))

\* the volume adjustment, with the two upper boundaries inside (r >= 1.5,
\* r >= 1.2) or outside (r > 1.5, r > 1.2) their bands
VolumeBands(inside) ==
    IF 2 * 19 * LatestVolume > 3 * Sum19 \/ (inside /\ 2 * 19 * LatestVolume = 3 * Sum19) THEN 20
    ELSE IF 5 * 19 * LatestVolume > 6 * Sum19 \/ (inside /\ 5 * 19 * LatestVolume = 6 * Sum19) THEN 10
    ELSE IF 2 * 19 * LatestVolume < Sum19 THEN 0 - 20
    ELSE 0

\* the local score with the volume adjustment taken out
WithoutVolume ==
    exc_score - TrendAdjustment(Recent, pattern_result) - RsiAdjustment(df.bars, pattern_result)
        - VolatilityAdjustment(Recent) - ConsolidationAdjustment(Recent)

\* C23: with r = latest volume / mean volume of the 19 bars before it, the
\* volume adjustment of the scorer is +20 when r >= 1.5, +10 when
\* 1.2 <= r < 1.5, -20 when r < 0.5, and 0 otherwise.
C23_VolumeConfirmation == Heuristic => WithoutVolume = BaseScore + VolumeBands(TRUE)

\* the adjustment with r > 1.5 and 1.2 < r <= 1.5
VolumeConfirmationAbove == Heuristic => WithoutVolume = BaseScore + VolumeBands(FALSE)

-----------------------------------------------------------------------------
(* Properties of the volatility factor *)

\* the heuristic ran to the end on df
Finished == Scored /\ pattern_result # None /\ exc_line = 0 /\ Len(df.bars) >= 1

\* the adjustment for ATR = atr and the latest close price, a = 100 * atr /
\* price: +5 for 1 <= a <= 3 (closed) or 1 < a < 3, -5 for a > 5
VolatilityBands(atr, price, closed) ==
    IF isnan(atr) \/ price <= 0 THEN 0
    ELSE IF \E lo \in {CmpFrac(atr.num, atr.den, price, 100)},
               hi \in {CmpFrac(atr.num, atr.den, 3 * price, 100)} :
                (lo > 0 /\ hi < 0) \/ (closed /\ lo >= 0 /\ hi <= 0)
    THEN 5
    ELSE IF FracGT(atr.num, atr.den, 5 * price, 100) THEN 0 - 5
    ELSE 0

\* the local score with the volatility adjustment taken out
WithoutVolatility ==
    exc_score - VolumeAdjustment(Recent) - TrendAdjustment(Recent, pattern_result)
        - (IF Len(df.bars) >= RsiPeriod THEN RsiAdjustment(df.bars, pattern_result) ELSE 0)
        - ConsolidationAdjustment(Recent)

VolatilityRule(closed) ==
    Finished =>
        WithoutVolatility = BaseScore + VolatilityBands(talib_ATR_last(Recent), LatestClose, closed)

\* C24: with a = ATR14 as a percentage of the latest close, the volatility
\* adjustment of the scorer is +5 when a is in the closed interval [1%, 3%],
\* -5 when a > 5%, and 0 otherwise (also when ATR is undefined or the price
\* is not positive).
C24_VolatilityClosedBand == VolatilityRule(TRUE)

\* the adjustment with +5 for 1% < a < 3%
VolatilityOpenBand == VolatilityRule(FALSE)

-----------------------------------------------------------------------------
(* Properties of the cup and handle *)

\* the closes of the last 120 bars
CupCloses == Column(tail(df.bars, CupWindow), "Close")

\* the conditions of a pair of rims at positions left and right of close:
\* cup depth in [12%, 33%], right rim within 5% of the left rim, pullback
\* after the right rim at most 50% of the cup depth, latest close within 3%
\* of the right rim (twoSided) or not more than 3% below it
RimPair(close, left, right, twoSided) ==
    \E left_price \in {iloc(close, left)}, right_price \in {iloc(close, right)},
       bottom \in {np_min(Slice(close, left, right))},
       low \in {np_min(Slice(close, right, Len(close)))}, latest \in {close[Len(close)]} :
        /\ (left_price - bottom) * 100 >= 12 * left_price
        /\ (left_price - bottom) * 100 <= 33 * left_price
        /\ Abs(right_price - left_price) * 100 <= 5 * left_price
        /\ (right_price - low) * left_price * 100 <= 50 * (left_price - bottom) * right_price
        /\ latest * 100 >= 97 * right_price
        /\ twoSided => latest * 100 <= 103 * right_price

\* some consecutive pair of order-5 local maxima of the close with a local
\* minimum between them satisfies the conditions; with handleBars the right
\* rim has at least five closes after it
CupFound(close, twoSided, handleBars) ==
    \E maxima \in {argrelextrema(close, TRUE, 5)}, minima \in {argrelextrema(close, FALSE, 5)} :
        \E left \in maxima, right \in maxima :
            /\ left < right
            /\ \A m \in maxima : ~(left < m /\ m < right)
            /\ \E m \in minima : left < m /\ m < right
            /\ handleBars => right + 5 < Len(close)
            /\ RimPair(close, left, right, twoSided)

CupRule(twoSided, handleBars) ==
    ("CUP_AND_HANDLE" \in DOMAIN signals /\ ~IsNone(df) /\ Len(df.bars) >= MinCupBars) =>
        (signals["CUP_AND_HANDLE"] = bullish <=> CupFound(CupCloses, twoSided, handleBars))

\* C25: detect_cup_and_handle returns bullish if and only if, within the
\* last 120 bars, some consecutive pair of order-5 local maxima of the close
\* with a local minimum between them satisfies all of: cup depth in
\* [12%, 33%], right rim within 5% of the left rim, pullback after the right
\* rim at most 50% of the cup depth, latest close within 3% of the right rim.
C25_CupIff == CupRule(TRUE, FALSE)

\* the equivalence with a latest close anywhere from 3% below the right rim
\* upwards and a right rim more than five bars before the end
CupIffFromBelow == CupRule(FALSE, TRUE)

\* the equivalence as stated, but for rims more than five bars before the end
CupIffWithHandle == CupRule(TRUE, TRUE)

\* the equivalence with the latest close from 3% below, rims anywhere
CupIffOneSided == CupRule(FALSE, FALSE)

-----------------------------------------------------------------------------
(* Properties of the flags *)

\* the closes of the last 50 bars
FlagCloses == Column(tail(df.bars, FlagWindow), "Close")

\* a pole ends at position i of close: a move of at least 10% over the 10
\* bars before it, up or down; the flag is the 10 bars from i on, its range
\* a fraction of the flag high (bull) or of the flag low (bear) that is at
\* most 50% of the pole's move; the latest close is within 2% of the flag
\* low (bull) or high (bear) on both sides (twoSided), or not beyond it by
\* more than 2% on the losing side
FlagAt(close, i, up, twoSided) ==
    \E pole_start \in {iloc(close, i - 10)}, pole_end \in {iloc(close, i)},
       high \in {np_max(Slice(close, i, i + 10))}, low \in {np_min(Slice(close, i, i + 10))},
       latest \in {close[Len(close)]} :
        /\ pole_start > 0
        /\ up => /\ (pole_end - pole_start) * 100 >= 10 * pole_start
                 /\ (high - low) * pole_start * 100 <= 50 * (pole_end - pole_start) * high
                 /\ latest * 100 >= 98 * low
                 /\ twoSided => latest * 100 <= 102 * low
        /\ ~up => /\ (pole_start - pole_end) * 100 >= 10 * pole_start
                  /\ (high - low) * pole_start * 100 <= 50 * (pole_start - pole_end) * low
                  /\ latest * 100 <= 102 * high
                  /\ twoSided => latest * 100 >= 98 * high

FlagFound(up, twoSided) ==
    \E close \in {FlagCloses} : \E i \in 10..(Len(close) - 11) : FlagAt(close, i, up, twoSided)

FlagOnlyIf(twoSided) ==
    /\ Returned("BULL_FLAG", bullish) => FlagFound(TRUE, twoSided)
    /\ Returned("BEAR_FLAG", bearish) => FlagFound(FALSE, twoSided)

\* C26 as stated: detect_bull_flag returns bullish (detect_bear_flag
\* bearish) only if, within the last 50 bars, a pole - a close-to-close move
\* of at least 10% over 10 bars in the pattern's direction - is followed by
\* a flag of 10 bars whose range is at most 50% of the pole's move, and the
\* latest close is within 2% of the flag low (bull) or flag high (bear).
C26_FlagWithinBoundary == FlagOnlyIf(TRUE)

\* C26 amended: the same, with the latest close not more than 2% below the
\* flag low (bull flag) or not more than 2% above the flag high (bear flag),
\* and however far on the other side.
C26_FlagNotInvalidated == FlagOnlyIf(FALSE)

\* C26 witness: a bull flag fired with the latest close more than 2% above
\* the flag low, after a pole of exactly 10%
C26_Witness ==
    /\ Returned("BULL_FLAG", bullish)
    /\ ~FlagFound(TRUE, TRUE)
    /\ LatestClose = BasePrice + 10 + 40

-----------------------------------------------------------------------------
(* The three trend detectors on one frame.                                 *)

Fired(name) == name \in DOMAIN signals /\ signals[name] = bullish

Ran(name) == name \in DOMAIN signals

\* C27: the trend detectors are nested: on one bar series, a bullish
\* detect_supertrend_fresh comes with a bullish detect_supertrend_recent,
\* and a bullish detect_supertrend_recent with a bullish
\* detect_supertrend_bullish at its default max_days_ago of 3.
C27_TrendNested ==
    /\ Fired("SUPERTREND_FRESH") /\ Ran("SUPERTREND_RECENT")
           => Fired("SUPERTREND_RECENT")
    /\ Fired("SUPERTREND_RECENT") /\ Ran("SUPERTREND_BULLISH")
           /\ max_days_ago = DefaultMaxDaysAgo
           => Fired("SUPERTREND_BULLISH")

C27_Witness ==
    /\ Fired("SUPERTREND_FRESH")
    /\ Fired("SUPERTREND_RECENT")
    /\ Fired("SUPERTREND_BULLISH")
    /\ max_days_ago = DefaultMaxDaysAgo

\* the nesting is strict: a flip two (three) days old is seen by the wider
\* detector only
RecentNotFresh ==
    /\ Fired("SUPERTREND_RECENT")
    /\ Ran("SUPERTREND_FRESH") /\ ~Fired("SUPERTREND_FRESH")

DefaultNotRecent ==
    /\ Fired("SUPERTREND_BULLISH") /\ max_days_ago = DefaultMaxDaysAgo
    /\ Ran("SUPERTREND_RECENT") /\ ~Fired("SUPERTREND_RECENT")

-----------------------------------------------------------------------------
(* The volume surge with price and the 3x volume spike on one frame.       *)

SurgeFired ==
    \/ Returned("VOLUME_SURGE_WITH_PRICE", bullish)
    \/ Returned("VOLUME_SURGE_WITH_PRICE", bearish)

\* C28: on one bar series and with the same lookback, whenever
\* detect_volume_surge_with_price returns bullish or bearish,
\* detect_explosive_volume_3x returns bullish.
C28_SurgeImpliesSpike ==
    SurgeFired /\ "EXPLOSIVE_VOLUME_3X" \in DOMAIN signals
        => Returned("EXPLOSIVE_VOLUME_3X", bullish)

\* a bearish surge on the volume threshold itself
C28_Witness ==
    /\ Returned("VOLUME_SURGE_WITH_PRICE", bearish)
    /\ Returned("EXPLOSIVE_VOLUME_3X", bullish)
    /\ lookback >= 1
    /\ LatestVolume * lookback = SurgeThreshold * PrecedingSum

\* the converse fails: a spike without the price move
SpikeWithoutSurge ==
    /\ Returned("EXPLOSIVE_VOLUME_3X", bullish)
    /\ Returned("VOLUME_SURGE_WITH_PRICE", None)

-----------------------------------------------------------------------------
(* The lowest score of a signal.                                           *)

Directed == Scored /\ pattern_result \in {bullish, bearish}

TrendNeverNegative ==
    Len(df.bars) > 0 /\ "Close" \in df.columns
        => TrendAdjustment(tail(df.bars, ScoreWindow), pattern_result) >= 0

FloorBearish == Directed /\ pattern_result = bearish /\ strength = 10

-----------------------------------------------------------------------------
(* The table after a run.                                                  *)

Completed == program = "none" /\ LoopOver

TodayRows == {row \in scanner_results : row.scan_date = today}

OneRowPerKey ==
    \A r1, r2 \in scanner_results : PrimaryKey(r1) = PrimaryKey(r2) => r1 = r2

\* C30: after every completed run of run_scanners_and_save the rows of
\* scanner_results whose scan_date is today are exactly the signals found
\* by that run, also when the run found none, with at most one row for a
\* (symbol, scanner_name, scan_date).
C30_TodayRowsAreTheRun ==
    Completed => /\ TodayRows = ResultRows(results, today)
                 /\ OneRowPerKey

\* the same for the runs that found a signal
TodayRowsOfFoundSignals ==
    Completed /\ results # <<>> => /\ TodayRows = ResultRows(results, today)
                                   /\ OneRowPerKey

\* a run that found no signal leaves the table as it was
EmptyRunKeepsTable ==
    [][Save /\ results = <<>> => scanner_results' = scanner_results]_vars

\* no step changes the rows of another date
OtherDatesUnchanged ==
    [][\A row \in scanner_results \cup scanner_results' :
           row.scan_date # today => (row \in scanner_results <=> row \in scanner_results')]_vars

\* the insert never meets a row of its key
SaveNeverRaises == program # "raised"

\* a run without a signal after a run of the same date that found some
StaleRows == Completed /\ results = <<>> /\ TodayRows # {}

\* a second run of the date has replaced the rows of the first
Replaced == Completed /\ now = 1 /\ results # <<>> /\ TodayRows = ResultRows(results, today)

OtherDateKept ==
    /\ Completed /\ now = LastRun
    /\ \E row \in scanner_results : row.scan_date # today

====
